---- MODULE Spec2Model ----
(***************************************************************************)
(* Model of the thread primitives of ink-rs (src/thread): Channel,         *)
(* Signal, Latent, ThreadPool, Event and EventListener, LatentWaiter and   *)
(* LatentGroup.                                                            *)
(*                                                                         *)
(* Granularity.  A std::sync::Mutex critical section is one step unless    *)
(* it reads or writes a location that code outside the mutex also touches  *)
(* (Channel::drop and Channel::clone update open_count and read            *)
(* wait_count without taking the mutex); there the section is cut at each  *)
(* such access and the variable "mutex" records who holds the lock.        *)
(* Condvar::wait releases the lock and parks in one step; a notified (or   *)
(* spuriously woken) thread must take the lock again before it goes on.    *)
(* Each Channel endpoint is used by one thread at a time.                  *)
(* Latent::set keeps the value mutex and the events mutex of its Latent    *)
(* while it triggers the registered events; each trigger and each drop of  *)
(* a triggered event is a step, and the other threads' calls on that       *)
(* Latent wait for the end of set.                                         *)
(***************************************************************************)
EXTENDS Integers, Sequences, FiniteSets

\* ------------------------------------------------------------------ bounds
MaxEndpoints == 2
MaxItems == 2
MaxEnds == 1
WorkerCount == 2
MaxTasks == 2
MaxHolders == 2
MaxValue == 2
MaxSets == 2
MaxFutures == 3
GateThreads == 2
MaxOpens == 2
SignalThreads == 2
MaxSignals == 2
CounterThreads == 2
MaxDelta == 2
MaxSum == 3
LockFutures == 1
LockClients == 1
MaxLockCalls == 2
MaxEventHolders == 2
SharedFutures == 2
MaxWaiterCalls == 1

\* ------------------------------------------------------------- Option<T>
None == 0
NoOne == 0

\* What a get() returned: nothing yet, None, or Some(item); the item is the
\* one the call appended to recvlog.
NoResult == -1
SomeItem == 1

VARIABLES
    \* ChannelData (channel.rs 8-16)
    deque, end_count, open_count, wait_count, instance_counter,
    mutex,      \* holder of ChannelData.mutex, or NoOne
    epc,        \* endpoint -> position of the thread using it
    lwait,      \* endpoint -> local wait_count of get (channel.rs 86)
    lopen,      \* endpoint -> local open of drop (channel.rs 127)
    lwaiting,   \* endpoint -> local waiting of drop (channel.rs 128)
    got,        \* endpoint -> what its last get() returned, until its next call
    putlog,     \* history: items in the order put() appended them
    recvlog,    \* history: items in the order get() took them
    \* LatentData (latent.rs 21-25), one entry per Latent
    value,      \* latent -> Option<T>
    poisoned,   \* latent -> the value mutex is poisoned (a holder panicked in it)
    \* ThreadPool (pool.rs 23-29) and its workers
    running_count,
    sigvalue,   \* empty_signal: the u32 behind Signal.mutex
    wpc,        \* worker -> position in the worker loop (pool.rs 49-58)
    task,       \* worker -> the task it took and has not finished (pool.rs 49)
    counter,    \* the counter the submitted tasks increment
    execs,      \* history: task -> times its body ran
    sets,       \* history: task -> times its Latent was set
    \* client threads (the pool's caller, the holders of a Latent)
    tpc,        \* client -> position
    tlat,       \* client -> the Latent it is blocked on
    tres,       \* client -> the call it last returned from and its result
    waited,     \* history: Latents on which a wait() of a client returned
    \* LatentData.events (latent.rs 24) and the setter thread of each Latent
    events,     \* latent -> the registered events: records [id, lis, tag]
    spc,        \* latent -> position of the thread that calls set() on it
    sheld,      \* latent -> listener of the event its setter has triggered
                \*           and not yet dropped (event.rs 114-124)
    donebefore, \* history: latent -> the Latents (the group's members, for
                \*           a member) whose set() had returned, and whose
                \*           event had fired, when its own firing began
    \* SharedData of each EventListener (event.rs 9-13)
    equeue,     \* listener -> triggered_events
    ecount,     \* listener -> event_count
    firedlog,   \* history: listener -> the values in the order trigger pushed them
    takenlog,   \* history: listener -> the values in the order the waits returned them
    \* LatentWaiter and LatentGroup (latent.rs 125-244)
    waiter_count, \* WAITER_COUNT (latent.rs 127)
    call,       \* client -> the locals of its current or last select call
    glatents,   \* LatentGroup.latents: latent_id -> Latent
    gcounter,   \* LatentGroup.counter
    added,      \* history: the Latents that were added to the group
    retlog,     \* history: the Latents the group returned, in order
    \* Gate (signal.rs 51-54)
    gate_open,  \* the bool behind Gate.mutex
    opens,      \* history: number of open() calls so far
    \* Signal (signal.rs 7-10), used on its own
    sigseen,    \* history: client -> the counter when its wait() parked
    \* AtomicInteger (atomic.rs 6-8)
    integer,    \* the AtomicI32
    init0,      \* history: the value the counter was made with
    deltasum,   \* history: algebraic sum of the deltas of the calls so far
    \* Channel
    endlen,     \* history: number of items put when end() was first called
    \* The mutexes of the Latents and listeners, one step per acquisition
    owner,      \* mutex -> the thread that holds it, or NoOne
    lprog,      \* thread -> what is left of the call it is in: the lock
                \*           operations still to do, in order
    lcalls,     \* thread -> number of calls it has made
    \* Events handed to other threads by the owner of an EventListener
    hpc         \* holder -> position of the thread that holds the Event

chanVars == <<deque, end_count, open_count, wait_count, instance_counter,
              mutex, epc, lwait, lopen, lwaiting, got, putlog, recvlog>>

latentVars == <<value, poisoned>>
poolVars == <<running_count, sigvalue, wpc, task, counter, execs, sets>>
clientVars == <<tpc, tlat, tres, waited>>

eventVars == <<events, spc, sheld, donebefore, equeue, ecount, firedlog, takenlog>>
selectVars == <<waiter_count, call, glatents, gcounter, added, retlog>>

signalVars == <<gate_open, opens, sigseen>>
counterVars == <<integer, init0, deltasum>>
lockVars == <<owner, lprog, lcalls>>
holderVars == <<hpc>>
auxVars == <<signalVars, counterVars, lockVars, holderVars>>

vars == <<chanVars, latentVars, poolVars, clientVars, eventVars, selectVars,
          auxVars, endlen>>

NotEnded == -1

\* No thread is followed at the level of the mutexes.
LockInert ==
    /\ owner = <<>>
    /\ lprog = <<>>
    /\ lcalls = <<>>

\* No Gate or Signal of its own, and no counter of its own, is in use.
SignalInert ==
    /\ gate_open = FALSE
    /\ opens = 0
    /\ sigseen = <<>>

CounterInert ==
    /\ integer = 0
    /\ init0 = 0
    /\ deltasum = 0

\* No Event is held by a thread of its own.
HolderInert == hpc = <<>>

AuxInert ==
    /\ LockInert
    /\ HolderInert
    /\ SignalInert
    /\ CounterInert

\* No end() has been called on the channel.
NeverEnded == endlen = NotEnded

\* No Latent carries an event, there is no listener and no select call.
SelectInert ==
    /\ events = <<>>
    /\ spc = <<>>
    /\ sheld = <<>>
    /\ donebefore = <<>>
    /\ equeue = <<>>
    /\ ecount = <<>>
    /\ firedlog = <<>>
    /\ takenlog = <<>>
    /\ waiter_count = 0
    /\ call = <<>>
    /\ glatents = <<>>
    /\ gcounter = 0
    /\ added = {}
    /\ retlog = <<>>

Endpoints == DOMAIN epc

\* Endpoints parked in put_event (Condvar::wait, channel.rs 95).
Parked == {e \in Endpoints : epc[e] = "g_wait"}

\* Condvar::notify_all: every parked thread is released.
NotifyAll(pc) == [e \in DOMAIN pc |-> IF pc[e] = "g_wait" THEN "g_woken" ELSE pc[e]]

\* Condvar::notify_one releasing the parked thread w.
NotifyOne(pc, w) == [pc EXCEPT ![w] = "g_woken"]

\* VecDeque::pop_front on a non-empty deque.
PopBack(d) == [item |-> d[Len(d)], rest |-> SubSeq(d, 1, Len(d) - 1)]
PeekFront(d) == [item |-> Head(d), rest |-> d]
PopFront(d) == [item |-> Head(d), rest |-> Tail(d)]

\* The auto-close test of get (channel.rs 89).
AutoCloseOff(wc, oc) == wc = oc
AutoClose(wc, oc) == wc + 1 = oc

\* The test of get that some endpoint has called end() (channel.rs 79).
EndedNever(n) == FALSE
Ended(n) == n > 0

\* wait_count after the woken getter's decrement (channel.rs 96).
WaitCountKept(wc) == wc
WaitCountAfterWake(wc) == wc - 1

\* ------------------------------------------------------------ Channel::get
\* channel.rs 73-86: lock; a non-empty deque is popped; an ended channel is
\* reported closed; otherwise wait_count is read and the lock is kept.
ChannelGetStart(e) ==
    /\ epc[e] = "ready"
    /\ mutex = NoOne
    /\ IF Len(deque) > 0
       THEN /\ deque' = PopFront(deque).rest
            /\ got' = [got EXCEPT ![e] = SomeItem]
            /\ recvlog' = Append(recvlog, PopFront(deque).item)
            /\ UNCHANGED <<epc, mutex, lwait>>
       ELSE IF Ended(end_count)
       THEN /\ epc' = NotifyAll(epc)
            /\ got' = [got EXCEPT ![e] = None]
            /\ UNCHANGED <<deque, recvlog, mutex, lwait>>
       ELSE /\ lwait' = [lwait EXCEPT ![e] = wait_count]
            /\ epc' = [epc EXCEPT ![e] = "g_open"]
            /\ mutex' = e
            /\ UNCHANGED <<deque, recvlog, got>>
    /\ UNCHANGED <<end_count, open_count, wait_count, instance_counter,
                   lopen, lwaiting, putlog>>

\* channel.rs 87-92: open_count is read; if every other endpoint is blocked
\* the getters are woken and the channel is reported closed.
ChannelGetCheckOpen(e) ==
    /\ epc[e] = "g_open"
    /\ IF AutoClose(lwait[e], open_count)
       THEN /\ epc' = [NotifyAll(epc) EXCEPT ![e] = "ready"]
            /\ got' = [got EXCEPT ![e] = None]
            /\ mutex' = NoOne
       ELSE /\ epc' = [epc EXCEPT ![e] = "g_inc"]
            /\ UNCHANGED <<got, mutex>>
    /\ lwait' = [lwait EXCEPT ![e] = 0]
    /\ UNCHANGED <<deque, end_count, open_count, wait_count, instance_counter,
                   lopen, lwaiting, putlog, recvlog>>

\* channel.rs 94
ChannelGetIncrement(e) ==
    /\ epc[e] = "g_inc"
    /\ wait_count' = wait_count + 1
    /\ epc' = [epc EXCEPT ![e] = "g_park"]
    /\ UNCHANGED <<deque, end_count, open_count, instance_counter, mutex,
                   lwait, lopen, lwaiting, got, putlog, recvlog>>

\* channel.rs 95: Condvar::wait unlocks the mutex and parks.
ChannelGetPark(e) ==
    /\ epc[e] = "g_park"
    /\ epc' = [epc EXCEPT ![e] = "g_wait"]
    /\ mutex' = NoOne
    /\ UNCHANGED <<deque, end_count, open_count, wait_count, instance_counter,
                   lwait, lopen, lwaiting, got, putlog, recvlog>>

\* Condvar::wait may return without a notification.
ChannelSpuriousWake(e) ==
    /\ epc[e] = "g_wait"
    /\ epc' = [epc EXCEPT ![e] = "g_woken"]
    /\ UNCHANGED <<deque, end_count, open_count, wait_count, instance_counter,
                   mutex, lwait, lopen, lwaiting, got, putlog, recvlog>>

\* channel.rs 95-97: the woken getter takes the lock again, decrements
\* wait_count and returns pop_front(), None on an empty deque.
ChannelGetWake(e) ==
    /\ epc[e] = "g_woken"
    /\ mutex = NoOne
    /\ wait_count' = WaitCountAfterWake(wait_count)
    /\ epc' = [epc EXCEPT ![e] = "ready"]
    /\ IF Len(deque) > 0
       THEN /\ deque' = PopFront(deque).rest
            /\ got' = [got EXCEPT ![e] = SomeItem]
            /\ recvlog' = Append(recvlog, PopFront(deque).item)
       ELSE /\ got' = [got EXCEPT ![e] = None]
            /\ UNCHANGED <<deque, recvlog>>
    /\ UNCHANGED <<end_count, open_count, instance_counter, mutex,
                   lwait, lopen, lwaiting, putlog>>

\* ------------------------------------------------------------ Channel::put
\* channel.rs 102-106: push_back and notify_one under the lock.
ChannelPut(e, item) ==
    /\ epc[e] = "ready"
    /\ mutex = NoOne
    /\ deque' = Append(deque, item)
    /\ putlog' = Append(putlog, item)
    /\ IF Parked = {}
       THEN UNCHANGED epc
       ELSE \E w \in Parked : epc' = NotifyOne(epc, w)
    /\ UNCHANGED <<end_count, open_count, wait_count, instance_counter, mutex,
                   lwait, lopen, lwaiting, recvlog>>
    /\ got' = [got EXCEPT ![e] = NoResult]

\* ------------------------------------------------------------ Channel::end
ChannelEndClears(e) ==
    /\ epc[e] = "ready"
    /\ mutex = NoOne
    /\ end_count < MaxEnds
    /\ end_count' = end_count + 1
    /\ deque' = <<>>
    /\ epc' = NotifyAll(epc)
    /\ UNCHANGED <<open_count, wait_count, instance_counter, mutex,
                   lwait, lopen, lwaiting, putlog, recvlog>>
    /\ got' = [got EXCEPT ![e] = NoResult]
    /\ endlen' = IF end_count = 0 THEN Len(putlog) ELSE endlen

\* channel.rs 61-68
ChannelEnd(e) ==
    /\ epc[e] = "ready"
    /\ mutex = NoOne
    /\ end_count < MaxEnds
    /\ end_count' = end_count + 1
    /\ epc' = IF Len(deque) = 0 THEN NotifyAll(epc) ELSE epc
    /\ UNCHANGED <<deque, open_count, wait_count, instance_counter, mutex,
                   lwait, lopen, lwaiting, putlog, recvlog>>
    /\ got' = [got EXCEPT ![e] = NoResult]
    /\ endlen' = IF end_count = 0 THEN Len(putlog) ELSE endlen

\* ---------------------------------------------------------- Channel::clone
\* channel.rs 112-120: the clone of e takes the instance id the counter hands
\* out (instance_counter.increment() returns the old value); endpoint n is
\* the one with instance id n - 1.
ChannelClone(e, n) ==
    /\ epc[e] = "ready"
    /\ n = instance_counter + 1
    /\ n \in Endpoints
    /\ epc[n] = "unborn"
    /\ instance_counter' = instance_counter + 1
    /\ open_count' = open_count + 1
    /\ epc' = [epc EXCEPT ![n] = "ready"]
    /\ UNCHANGED <<deque, end_count, wait_count, mutex,
                   lwait, lopen, lwaiting, putlog, recvlog>>
    /\ got' = [got EXCEPT ![e] = NoResult]

\* ----------------------------------------------------------- Channel::drop
\* channel.rs 127: open_count.decrement() - 1, without the lock.
ChannelDropDecrement(e) ==
    /\ epc[e] = "ready"
    /\ open_count' = open_count - 1
    /\ lopen' = [lopen EXCEPT ![e] = open_count - 1]
    /\ epc' = [epc EXCEPT ![e] = "d_read"]
    /\ UNCHANGED <<deque, end_count, wait_count, instance_counter, mutex,
                   lwait, lwaiting, putlog, recvlog>>
    /\ got' = [got EXCEPT ![e] = NoResult]

\* channel.rs 128
ChannelDropRead(e) ==
    /\ epc[e] = "d_read"
    /\ lwaiting' = [lwaiting EXCEPT ![e] = wait_count]
    /\ epc' = [epc EXCEPT ![e] = "d_cmp"]
    /\ UNCHANGED <<deque, end_count, open_count, wait_count, instance_counter,
                   mutex, lwait, lopen, got, putlog, recvlog>>

\* channel.rs 130-132
ChannelDropNotify(e) ==
    /\ epc[e] = "d_cmp"
    /\ epc' = [(IF lwaiting[e] = lopen[e] THEN NotifyAll(epc) ELSE epc)
                 EXCEPT ![e] = "dropped"]
    /\ lopen' = [lopen EXCEPT ![e] = 0]
    /\ lwaiting' = [lwaiting EXCEPT ![e] = 0]
    /\ UNCHANGED <<deque, end_count, open_count, wait_count, instance_counter,
                   mutex, lwait, got, putlog, recvlog>>

\* ------------------------------------------------------------ Latent
Latents == DOMAIN value
Clients == DOMAIN tpc

BoolVal(b) == IF b THEN 1 ELSE 0

Returned(op, v) == [op |-> op, val |-> v]

\* The call op of a client ended in a panic: lock().unwrap() on a poisoned
\* Mutex (latent.rs 55, 62, 83, 86) or the assert of set (latent.rs 65).
Panicked(op) == [op |-> "panic", val |-> op]

\* The guard of set (latent.rs 65, 67): only an absent value is assigned.
SetAlways(cur) == TRUE
SetAllowed(cur) == cur = None

\* Condvar::notify_all on the Latent's condvar (latent.rs 69).
LatentNotifyAll(pc, lat, l) ==
    [t \in DOMAIN pc |-> IF pc[t] = "l_wait" /\ lat[t] = l THEN "l_woken" ELSE pc[t]]

\* Latent::is_ready (latent.rs 54-57)
is_ready(l) == value[l] # None

\* latent.rs 61-78 as run by the thread whose position is not in tpc (a pool
\* worker): TRUE iff the call returns, FALSE iff it panics (the Mutex is
\* poisoned, or the assert fails and poisons it).  No event is registered on
\* a Latent in these specifications, so the drain finds nothing to trigger.
LatentSetReturns(l) == ~poisoned[l] /\ SetAllowed(value[l])

LatentSetEffect(l, v) ==
    IF poisoned[l]
    THEN UNCHANGED <<value, poisoned, tpc>>
    ELSE IF SetAllowed(value[l])
    THEN /\ value' = [value EXCEPT ![l] = v]
         /\ tpc' = LatentNotifyAll(tpc, tlat, l)
         /\ UNCHANGED poisoned
    ELSE /\ poisoned' = [poisoned EXCEPT ![l] = TRUE]
         /\ UNCHANGED <<value, tpc>>

\* Latent::set by a client thread h (latent.rs 61-78).
LatentSet(h, l, v) ==
    /\ tpc[h] = "idle"
    /\ IF poisoned[l]
       THEN /\ tpc' = [tpc EXCEPT ![h] = "panicked"]
            /\ tres' = [tres EXCEPT ![h] = Panicked("set")]
            /\ UNCHANGED <<value, poisoned>>
       ELSE IF SetAllowed(value[l])
       THEN /\ value' = [value EXCEPT ![l] = v]
            /\ tpc' = LatentNotifyAll(tpc, tlat, l)
            /\ tres' = [tres EXCEPT ![h] = Returned("set", v)]
            /\ UNCHANGED poisoned
       ELSE /\ poisoned' = [poisoned EXCEPT ![l] = TRUE]
            /\ tpc' = [tpc EXCEPT ![h] = "panicked"]
            /\ tres' = [tres EXCEPT ![h] = Panicked("set")]
            /\ UNCHANGED value
    /\ UNCHANGED <<tlat, waited>>

\* Latent::is_ready by a client thread (latent.rs 54-57).
LatentIsReady(h, l) ==
    /\ tpc[h] = "idle"
    /\ IF poisoned[l]
       THEN /\ tpc' = [tpc EXCEPT ![h] = "panicked"]
            /\ tres' = [tres EXCEPT ![h] = Panicked("is_ready")]
       ELSE /\ tres' = [tres EXCEPT ![h] = Returned("is_ready", BoolVal(is_ready(l)))]
            /\ UNCHANGED tpc
    /\ UNCHANGED <<value, poisoned, tlat, waited>>

\* Latent::wait, latent.rs 83-89 up to the first Condvar::wait.
LatentWaitStart(h, l) ==
    /\ tpc[h] = "idle"
    /\ IF poisoned[l]
       THEN /\ tpc' = [tpc EXCEPT ![h] = "panicked"]
            /\ tres' = [tres EXCEPT ![h] = Panicked("wait")]
            /\ UNCHANGED <<tlat, waited>>
       ELSE IF value[l] # None
       THEN /\ tres' = [tres EXCEPT ![h] = Returned("wait", value[l])]
            /\ waited' = waited \cup {l}
            /\ UNCHANGED <<tpc, tlat>>
       ELSE /\ tpc' = [tpc EXCEPT ![h] = "l_wait"]
            /\ tlat' = [tlat EXCEPT ![h] = l]
            /\ UNCHANGED <<tres, waited>>
    /\ UNCHANGED <<value, poisoned>>

\* latent.rs 85-89: the woken waiter takes the lock and tests the value again.
LatentWaitWake(h) ==
    /\ tpc[h] = "l_woken"
    /\ IF poisoned[tlat[h]]
       THEN /\ tpc' = [tpc EXCEPT ![h] = "panicked"]
            /\ tres' = [tres EXCEPT ![h] = Panicked("wait")]
            /\ UNCHANGED waited
       ELSE IF value[tlat[h]] # None
       THEN /\ tres' = [tres EXCEPT ![h] = Returned("wait", value[tlat[h]])]
            /\ waited' = waited \cup {tlat[h]}
            /\ tpc' = [tpc EXCEPT ![h] = "idle"]
       ELSE /\ tpc' = [tpc EXCEPT ![h] = "l_wait"]
            /\ UNCHANGED <<tres, waited>>
    /\ tlat' = [tlat EXCEPT ![h] = IF tpc'[h] = "l_wait" THEN tlat[h] ELSE 0]
    /\ UNCHANGED <<value, poisoned>>

\* Condvar::wait may return without a notification.
LatentSpuriousWake(h) ==
    /\ tpc[h] = "l_wait"
    /\ tpc' = [tpc EXCEPT ![h] = "l_woken"]
    /\ UNCHANGED <<value, poisoned, tlat, tres, waited>>

\* ------------------------------------------------------------ Signal
\* Condvar::notify_all on Signal.cvar (signal.rs 27).
SignalNotifyAll(pc) ==
    [t \in DOMAIN pc |-> IF pc[t] = "s_wait" THEN "s_woken" ELSE pc[t]]

\* Signal::wait, signal.rs 41-42: lock and park.
SignalWaitPark(c) ==
    /\ tpc[c] = "s_enter"
    /\ tpc' = [tpc EXCEPT ![c] = "s_wait"]
    /\ UNCHANGED <<tlat, tres, waited>>

\* Signal::wait, signal.rs 42-43: the woken waiter returns the counter; this
\* ends ThreadPool::wait (pool.rs 149-151).
SignalWaitWake(c) ==
    /\ tpc[c] = "s_woken"
    /\ tpc' = [tpc EXCEPT ![c] = "idle"]
    /\ tres' = [tres EXCEPT ![c] = Returned("pool_wait", sigvalue)]
    /\ UNCHANGED <<tlat, waited>>

SignalSpuriousWake(c) ==
    /\ tpc[c] = "s_wait"
    /\ tpc' = [tpc EXCEPT ![c] = "s_woken"]
    /\ UNCHANGED <<tlat, tres, waited>>

\* ------------------------------------------------------------ ThreadPool
\* The pool's own endpoint of task_channel; worker w uses endpoint w.
PoolEndpoint == 1
Workers == DOMAIN wpc
Caller == 1

\* What task t returns: its body increments the counter and returns t.
TaskResult(t) == t

\* ThreadPool::is_empty (pool.rs 95-97)
is_empty == running_count = 0

\* pool.rs 49: the worker calls task_channel.get(); the loop goes on with the
\* task, or ends when get reports closed.
WorkerAfterGet(w) ==
    /\ wpc' = [wpc EXCEPT ![w] =
                 IF epc'[w] # "ready" THEN "get"
                 ELSE IF got'[w] = None THEN "exit" ELSE "inc"]
    /\ task' = [task EXCEPT ![w] =
                 IF epc'[w] = "ready" /\ got'[w] = SomeItem
                 THEN recvlog'[Len(recvlog')] ELSE None]
    /\ UNCHANGED <<running_count, sigvalue, counter, execs, sets>>
    /\ UNCHANGED <<latentVars, clientVars>>

WorkerGetStart(w) == wpc[w] = "get" /\ ChannelGetStart(w) /\ WorkerAfterGet(w)
WorkerGetCheckOpen(w) == wpc[w] = "get" /\ ChannelGetCheckOpen(w) /\ WorkerAfterGet(w)
WorkerGetIncrement(w) == wpc[w] = "get" /\ ChannelGetIncrement(w) /\ WorkerAfterGet(w)
WorkerGetPark(w) == wpc[w] = "get" /\ ChannelGetPark(w) /\ WorkerAfterGet(w)
WorkerSpuriousWake(w) == wpc[w] = "get" /\ ChannelSpuriousWake(w) /\ WorkerAfterGet(w)
WorkerGetWake(w) == wpc[w] = "get" /\ ChannelGetWake(w) /\ WorkerAfterGet(w)

\* pool.rs 50
WorkerIncrement(w) ==
    /\ wpc[w] = "inc"
    /\ running_count' = running_count + 1
    /\ wpc' = [wpc EXCEPT ![w] = "body"]
    /\ UNCHANGED <<sigvalue, task, counter, execs, sets>>
    /\ UNCHANGED <<chanVars, latentVars, clientVars>>

\* pool.rs 52, 135: the task body runs.
WorkerRunTask(w) ==
    /\ wpc[w] = "body"
    /\ counter' = counter + 1
    /\ execs' = [execs EXCEPT ![task[w]] = @ + 1]
    /\ wpc' = [wpc EXCEPT ![w] = "set"]
    /\ UNCHANGED <<running_count, sigvalue, task, sets>>
    /\ UNCHANGED <<chanVars, latentVars, clientVars>>

\* pool.rs 136: l.set(r) on the Latent that put returned for this task; the
\* task, an FnOnce, is consumed by the call.
WorkerSetLatent(w) ==
    /\ wpc[w] = "set"
    /\ LatentSetEffect(task[w], TaskResult(task[w]))
    /\ sets' = [sets EXCEPT ![task[w]] = @ + 1]
    /\ wpc' = [wpc EXCEPT ![w] = IF LatentSetReturns(task[w]) THEN "dec" ELSE "panicked"]
    /\ task' = [task EXCEPT ![w] = None]
    /\ UNCHANGED <<running_count, sigvalue, counter, execs>>
    /\ UNCHANGED <<chanVars, tlat, tres, waited>>

\* pool.rs 53
WorkerDecrement(w) ==
    /\ wpc[w] = "dec"
    /\ running_count' = running_count - 1
    /\ wpc' = [wpc EXCEPT ![w] = "check"]
    /\ UNCHANGED <<sigvalue, task, counter, execs, sets>>
    /\ UNCHANGED <<chanVars, latentVars, clientVars>>

\* pool.rs 55
WorkerCheckEmpty(w) ==
    /\ wpc[w] = "check"
    /\ wpc' = [wpc EXCEPT ![w] = IF running_count = 0 THEN "signal" ELSE "get"]
    /\ UNCHANGED <<running_count, sigvalue, task, counter, execs, sets>>
    /\ UNCHANGED <<chanVars, latentVars, clientVars>>

\* pool.rs 56: empty_signal.signal_all() (signal.rs 24-28)
WorkerSignal(w) ==
    /\ wpc[w] = "signal"
    /\ sigvalue' = sigvalue + 1
    /\ tpc' = SignalNotifyAll(tpc)
    /\ wpc' = [wpc EXCEPT ![w] = "get"]
    /\ UNCHANGED <<running_count, task, counter, execs, sets>>
    /\ UNCHANGED <<chanVars, latentVars, tlat, tres, waited>>

\* pool.rs 58-61: the loop has ended; the thread's closure, and with it the
\* worker's clone of task_channel, is dropped.
WorkerExit(w) ==
    /\ wpc[w] = "exit"
    /\ ChannelDropDecrement(w)
    /\ wpc' = [wpc EXCEPT ![w] = "done"]
    /\ UNCHANGED <<running_count, sigvalue, task, counter, execs, sets>>
    /\ UNCHANGED <<latentVars, clientVars>>

\* The rest of a Channel::drop, of a worker's endpoint or of the pool's.
PoolDropRead(e) == ChannelDropRead(e) /\ UNCHANGED <<latentVars, poolVars, clientVars>>
PoolDropNotify(e) == ChannelDropNotify(e) /\ UNCHANGED <<latentVars, poolVars, clientVars>>

\* ThreadPool::put (pool.rs 128-142): a fresh Latent, the wrapped task queued.
PoolPut(c, t) ==
    /\ tpc[c] = "idle"
    /\ ChannelPut(PoolEndpoint, t)
    /\ tres' = [tres EXCEPT ![c] = Returned("put", t)]
    /\ UNCHANGED <<tpc, tlat, waited>>
    /\ UNCHANGED <<latentVars, poolVars>>

\* ThreadPool::wait (pool.rs 147-151): the test of running_count; the call
\* returns at once when it reads 0, and goes on to Signal::wait otherwise.
PoolWaitCheck(c) ==
    /\ tpc[c] = "idle"
    /\ epc[PoolEndpoint] = "ready"
    /\ IF running_count > 0
       THEN /\ tpc' = [tpc EXCEPT ![c] = "s_enter"]
            /\ UNCHANGED tres
       ELSE /\ tres' = [tres EXCEPT ![c] = Returned("pool_wait", 0)]
            /\ UNCHANGED tpc
    /\ UNCHANGED <<tlat, waited>>
    /\ UNCHANGED <<chanVars, latentVars, poolVars>>

PoolSignalWaitPark(c) == SignalWaitPark(c) /\ UNCHANGED <<chanVars, latentVars, poolVars>>
PoolSignalWaitWake(c) == SignalWaitWake(c) /\ UNCHANGED <<chanVars, latentVars, poolVars>>
PoolSignalSpuriousWake(c) == SignalSpuriousWake(c) /\ UNCHANGED <<chanVars, latentVars, poolVars>>

\* The caller waits on a Latent that put returned.
PoolLatentWaitStart(c, t) ==
    /\ t \in 1..Len(putlog)
    /\ LatentWaitStart(c, t)
    /\ UNCHANGED <<chanVars, poolVars>>
PoolLatentWaitWake(c) == LatentWaitWake(c) /\ UNCHANGED <<chanVars, poolVars>>
PoolLatentSpuriousWake(c) == LatentSpuriousWake(c) /\ UNCHANGED <<chanVars, poolVars>>

\* The ThreadPool is dropped: its task_channel endpoint is released.
PoolDrop(c) ==
    /\ tpc[c] = "idle"
    /\ ChannelDropDecrement(PoolEndpoint)
    /\ tres' = [tres EXCEPT ![c] = Returned("drop", 0)]
    /\ UNCHANGED <<tpc, tlat, waited>>
    /\ UNCHANGED <<latentVars, poolVars>>

\* ThreadPool::new (pool.rs 70-84): the pool's endpoint and one clone per
\* worker; nothing queued, nothing running.
PoolInit ==
    /\ SelectInert
    /\ AuxInert
    /\ NeverEnded
    /\ deque = <<>>
    /\ end_count = 0
    /\ open_count = WorkerCount + 1
    /\ wait_count = 0
    /\ instance_counter = WorkerCount + 1
    /\ mutex = NoOne
    /\ epc = [e \in 1..(WorkerCount + 1) |-> "ready"]
    /\ lwait = [e \in 1..(WorkerCount + 1) |-> 0]
    /\ lopen = [e \in 1..(WorkerCount + 1) |-> 0]
    /\ lwaiting = [e \in 1..(WorkerCount + 1) |-> 0]
    /\ got = [e \in 1..(WorkerCount + 1) |-> NoResult]
    /\ putlog = <<>>
    /\ recvlog = <<>>
    /\ value = [t \in 1..MaxTasks |-> None]
    /\ poisoned = [t \in 1..MaxTasks |-> FALSE]
    /\ running_count = 0
    /\ sigvalue = 0
    /\ wpc = [w \in 2..(WorkerCount + 1) |-> "get"]
    /\ task = [w \in 2..(WorkerCount + 1) |-> None]
    /\ counter = 0
    /\ execs = [t \in 1..MaxTasks |-> 0]
    /\ sets = [t \in 1..MaxTasks |-> 0]
    /\ tpc = [c \in {Caller} |-> "idle"]
    /\ tlat = [c \in {Caller} |-> 0]
    /\ tres = [c \in {Caller} |-> Returned("new", 0)]
    /\ waited = {}

\* No event is registered on the Latents of the pool.
PoolOnly == UNCHANGED <<eventVars, selectVars, auxVars, endlen>>

PoolNext ==
    \/ \E w \in Workers : WorkerGetStart(w) /\ PoolOnly
    \/ \E w \in Workers : WorkerGetCheckOpen(w) /\ PoolOnly
    \/ \E w \in Workers : WorkerGetIncrement(w) /\ PoolOnly
    \/ \E w \in Workers : WorkerGetPark(w) /\ PoolOnly
    \/ \E w \in Workers : WorkerSpuriousWake(w) /\ PoolOnly
    \/ \E w \in Workers : WorkerGetWake(w) /\ PoolOnly
    \/ \E w \in Workers : WorkerIncrement(w) /\ PoolOnly
    \/ \E w \in Workers : WorkerRunTask(w) /\ PoolOnly
    \/ \E w \in Workers : WorkerSetLatent(w) /\ PoolOnly
    \/ \E w \in Workers : WorkerDecrement(w) /\ PoolOnly
    \/ \E w \in Workers : WorkerCheckEmpty(w) /\ PoolOnly
    \/ \E w \in Workers : WorkerSignal(w) /\ PoolOnly
    \/ \E w \in Workers : WorkerExit(w) /\ PoolOnly
    \/ \E e \in Endpoints : PoolDropRead(e) /\ PoolOnly
    \/ \E e \in Endpoints : PoolDropNotify(e) /\ PoolOnly
    \/ \E c \in Clients : Len(putlog) < MaxTasks /\ PoolPut(c, Len(putlog) + 1) /\ PoolOnly
    \/ \E c \in Clients : PoolWaitCheck(c) /\ PoolOnly
    \/ \E c \in Clients : PoolSignalWaitPark(c) /\ PoolOnly
    \/ \E c \in Clients : PoolSignalWaitWake(c) /\ PoolOnly
    \/ \E c \in Clients : PoolSignalSpuriousWake(c) /\ PoolOnly
    \/ \E c \in Clients, t \in Latents : PoolLatentWaitStart(c, t) /\ PoolOnly
    \/ \E c \in Clients : PoolLatentWaitWake(c) /\ PoolOnly
    \/ \E c \in Clients : PoolLatentSpuriousWake(c) /\ PoolOnly
    \/ \E c \in Clients : PoolDrop(c) /\ PoolOnly

Spec == PoolInit /\ [][PoolNext]_vars

\* ----------------------------------------------------- claims on ThreadPool
Count(seq, x) == Cardinality({i \in 1..Len(seq) : seq[i] = x})

\* C1: when pool.wait() returns, every task submitted before it has run: the
\* counter the tasks increment equals the number of tasks put.
C1_WaitObservesAllTasks ==
    tres[Caller].op = "pool_wait" => counter = Len(putlog)

\* Nothing is queued or running and every worker is parked in get() or has
\* left its loop: no worker will call signal_all unless a task is put.
PoolQuiescent ==
    /\ deque = <<>>
    /\ \A w \in Workers : \/ wpc[w] = "get" /\ epc[w] = "g_wait"
                          \/ wpc[w] = "done" /\ epc[w] = "dropped"

\* C2: every call of pool.wait() returns: the caller is never left parked on
\* the idleness signal with the pool quiescent (the caller, blocked, puts no
\* task, so no signal_all can follow and the call never returns).
C2_PoolWaitReturns ==
    ~(tpc[Caller] = "s_wait" /\ PoolQuiescent)

\* C3: once a wait() on every future returned by put has returned,
\* is_empty() is true.
C3_EmptyAfterAllFutures ==
    (Len(putlog) > 0 /\ \A t \in 1..Len(putlog) : t \in waited) => is_empty

\* C4: every task put is either still queued or was taken by exactly one
\* get(); a taken task is held by exactly one worker until its Latent is
\* set; its body runs once, its Latent is set once, to the task's result.
TaskHolders(t) == {w \in Workers : task[w] = t}

C4_TaskRunsOnce ==
    \A t \in Latents :
        /\ Count(deque, t) + Count(recvlog, t) = (IF t <= Len(putlog) THEN 1 ELSE 0)
        /\ Cardinality(TaskHolders(t)) + sets[t] = Count(recvlog, t)
        /\ execs[t] = sets[t] + Cardinality({w \in TaskHolders(t) : wpc[w] = "set"})
        /\ sets[t] <= 1
        /\ (sets[t] = 1) = (value[t] # None)
        /\ value[t] # None => value[t] = TaskResult(t)
        /\ ~poisoned[t]
        /\ \A w \in Workers : task[w] # None <=> wpc[w] \in {"inc", "body", "set"}

C4_Witness ==
    /\ sets[1] = 1 /\ value[1] = TaskResult(1)
    /\ recvlog = <<1, 2>>
    /\ \E w \in Workers : task[w] = 2 /\ wpc[w] = "set"

\* ------------------------------------------------- a Channel and its clones
\* Channel::named (channel.rs 48-57): one endpoint, open_count 1.
ChannelInit ==
    /\ SelectInert
    /\ AuxInert
    /\ NeverEnded
    /\ deque = <<>>
    /\ end_count = 0
    /\ open_count = 1
    /\ wait_count = 0
    /\ instance_counter = 1
    /\ mutex = NoOne
    /\ epc = [e \in 1..MaxEndpoints |-> IF e = 1 THEN "ready" ELSE "unborn"]
    /\ lwait = [e \in 1..MaxEndpoints |-> 0]
    /\ lopen = [e \in 1..MaxEndpoints |-> 0]
    /\ lwaiting = [e \in 1..MaxEndpoints |-> 0]
    /\ got = [e \in 1..MaxEndpoints |-> NoResult]
    /\ putlog = <<>>
    /\ recvlog = <<>>
    /\ value = [l \in {1} |-> None]
    /\ poisoned = [l \in {1} |-> FALSE]
    /\ running_count = 0
    /\ sigvalue = 0
    /\ wpc = <<>>
    /\ task = <<>>
    /\ counter = 0
    /\ execs = <<>>
    /\ sets = <<>>
    /\ tpc = <<>>
    /\ tlat = <<>>
    /\ tres = <<>>
    /\ waited = {}

\* A step of a thread that only uses the Channel.
ChannelFrame == UNCHANGED <<latentVars, poolVars, clientVars, eventVars, selectVars, auxVars>>
ChannelOnly == ChannelFrame /\ UNCHANGED endlen

ChannelNext ==
    \/ \E e \in Endpoints : ChannelGetStart(e) /\ ChannelOnly
    \/ \E e \in Endpoints : ChannelGetCheckOpen(e) /\ ChannelOnly
    \/ \E e \in Endpoints : ChannelGetIncrement(e) /\ ChannelOnly
    \/ \E e \in Endpoints : ChannelGetPark(e) /\ ChannelOnly
    \/ \E e \in Endpoints : ChannelSpuriousWake(e) /\ ChannelOnly
    \/ \E e \in Endpoints : ChannelGetWake(e) /\ ChannelOnly
    \/ \E e \in Endpoints : Len(putlog) < MaxItems /\ ChannelPut(e, Len(putlog) + 1) /\ ChannelOnly
    \/ \E e \in Endpoints : ChannelEnd(e) /\ ChannelFrame
    \/ \E e, n \in Endpoints : ChannelClone(e, n) /\ ChannelOnly
    \/ \E e \in Endpoints : ChannelDropDecrement(e) /\ ChannelOnly
    \/ \E e \in Endpoints : ChannelDropRead(e) /\ ChannelOnly
    \/ \E e \in Endpoints : ChannelDropNotify(e) /\ ChannelOnly

ChannelSpec == ChannelInit /\ [][ChannelNext]_vars

\* -------------------------------------------------------- claims on Channel
\* A getter is parked in get(), the buffer is empty and every other endpoint
\* is parked too or has been released: nobody is left to notify put_event.
GettersStranded ==
    /\ \E e \in Endpoints : epc[e] = "g_wait"
    /\ deque = <<>>
    /\ \A e \in Endpoints : epc[e] \in {"g_wait", "dropped", "unborn"}

\* C5: once every endpoint that is not blocked in get() has been released,
\* no getter stays blocked: the blocked getters have been notified.
C5_BlockedGettersReleased == ~GettersStranded

\* C6: with one live endpoint, no end() and an empty buffer, a get() on that
\* endpoint never goes on to park: having found the buffer empty and the
\* channel not ended, its next step returns None.
C6_SoleEndpointGetCloses ==
    [][\A e \in Endpoints :
         (open_count = 1 /\ end_count = 0 /\ deque = <<>>
                         /\ epc[e] \in {"ready", "g_open"})
            => /\ epc'[e] \notin {"g_inc", "g_park", "g_wait", "g_woken"}
               /\ (epc[e] = "g_open" /\ epc'[e] # "g_open")
                     => (epc'[e] = "ready" /\ got'[e] = None)]_vars

C6_Witness ==
    /\ instance_counter = 1
    /\ epc[1] = "ready"
    /\ got[1] = None
    /\ end_count = 0
    /\ deque = <<>>
    /\ wait_count = 0

\* C7: the items taken by get() calls, in the order they are taken, are a
\* prefix of the items in the order put() appended them.
C7_Fifo ==
    /\ Len(recvlog) <= Len(putlog)
    /\ recvlog = SubSeq(putlog, 1, Len(recvlog))

C7_Witness ==
    /\ Len(recvlog) = 2
    /\ \E e1, e2 \in Endpoints : e1 # e2 /\ got[e1] = SomeItem /\ got[e2] = SomeItem

\* C8: an item that was put is in the buffer until exactly one get() returns
\* it: it is never returned twice and never leaves the buffer otherwise.
C8_NoDuplicateNoLoss ==
    /\ \A i \in 1..Len(putlog) :
          Count(deque, putlog[i]) + Count(recvlog, putlog[i]) = 1
    /\ \A i \in 1..Len(recvlog) : Count(putlog, recvlog[i]) = 1
    /\ \A i \in 1..Len(deque) : Count(putlog, deque[i]) = 1

C8_Witness ==
    /\ end_count > 0
    /\ Len(deque) = 1
    /\ Len(recvlog) = 1
    /\ \E e \in Endpoints : epc[e] = "dropped"
    /\ \E e \in Endpoints : epc[e] = "ready" /\ got[e] = None

\* C9: open_count >= wait_count >= 0 in every state.
C9_OpenAtLeastWaiting ==
    /\ wait_count >= 0
    /\ open_count >= wait_count

C9_Witness ==
    /\ wait_count = open_count
    /\ wait_count = Cardinality(Parked)
    /\ Parked # {}
    /\ \E e \in Endpoints : epc[e] = "dropped"

\* ------------------------------------------------ a Latent and its holders
TheLatent == 1

\* Latent::new (latent.rs 46-50), cloned to MaxHolders threads.
LatentInit ==
    /\ SelectInert
    /\ AuxInert
    /\ NeverEnded
    /\ value = [l \in {TheLatent} |-> None]
    /\ poisoned = [l \in {TheLatent} |-> FALSE]
    /\ sets = [l \in {TheLatent} |-> 0]
    /\ tpc = [h \in 1..MaxHolders |-> "idle"]
    /\ tlat = [h \in 1..MaxHolders |-> 0]
    /\ tres = [h \in 1..MaxHolders |-> Returned("new", 0)]
    /\ waited = {}
    /\ deque = <<>>
    /\ end_count = 0
    /\ open_count = 0
    /\ wait_count = 0
    /\ instance_counter = 0
    /\ mutex = NoOne
    /\ epc = <<>>
    /\ lwait = <<>>
    /\ lopen = <<>>
    /\ lwaiting = <<>>
    /\ got = <<>>
    /\ putlog = <<>>
    /\ recvlog = <<>>
    /\ running_count = 0
    /\ sigvalue = 0
    /\ wpc = <<>>
    /\ task = <<>>
    /\ counter = 0
    /\ execs = <<>>

\* A holder calls set(v); the calls are counted in sets.
HolderSet(h, v) ==
    /\ sets[TheLatent] < MaxSets
    /\ LatentSet(h, TheLatent, v)
    /\ sets' = [sets EXCEPT ![TheLatent] = @ + 1]
    /\ UNCHANGED <<chanVars, running_count, sigvalue, wpc, task, counter, execs>>
    /\ UNCHANGED <<eventVars, selectVars, auxVars, endlen>>

LatentOnly == UNCHANGED <<chanVars, poolVars, eventVars, selectVars, auxVars, endlen>>

LatentNext ==
    \/ \E h \in Clients, v \in 1..MaxValue : HolderSet(h, v)
    \/ \E h \in Clients : LatentIsReady(h, TheLatent) /\ LatentOnly
    \/ \E h \in Clients : LatentWaitStart(h, TheLatent) /\ LatentOnly
    \/ \E h \in Clients : LatentWaitWake(h) /\ LatentOnly
    \/ \E h \in Clients : LatentSpuriousWake(h) /\ LatentOnly

LatentSpec == LatentInit /\ [][LatentNext]_vars

\* --------------------------------------------------------- claims on Latent
\* C10: the value of a Latent goes from absent to present at most once and
\* never changes afterwards; a wait() returns only a present value, the one
\* stored; an is_ready() returns true iff the value is present when it is
\* called; a set(v) that returns has stored v.
C10_SingleAssignment ==
    /\ [][\A l \in Latents : value[l] # None => value'[l] = value[l]]_vars
    /\ [](\A h \in Clients :
            /\ tres[h].op = "wait" =>
                  value[TheLatent] # None /\ tres[h].val = value[TheLatent]
            /\ tres[h].op = "set" => tres[h].val = value[TheLatent]
            /\ tres[h] = Returned("is_ready", 1) => value[TheLatent] # None)
    /\ [][\A h \in Clients :
            (tres'[h] # tres[h] /\ tres'[h].op = "is_ready")
               => tres'[h].val = BoolVal(value[TheLatent] # None)]_vars

C10_Witness ==
    /\ value[TheLatent] # None
    /\ \E h1, h2 \in Clients :
          /\ h1 # h2
          /\ tres[h1] = Returned("set", value[TheLatent])
          /\ tres[h2] = Returned("wait", value[TheLatent])

\* C11: a set() on a Latent that is already set is rejected; the value of
\* the first set stays stored, and no wait() or is_ready() of another holder
\* fails afterwards: each still reports that value.
C11_RejectedSetKeepsValueReadable ==
    poisoned[TheLatent] =>
        /\ value[TheLatent] # None
        /\ \A h \in Clients :
              tres[h] \notin {Panicked("wait"), Panicked("is_ready")}

\* C12: once set() has been performed on the Latent, no wait() on it ends
\* without returning the value, whether it was blocked or started later.
C12_WaitReturnsOnceSet ==
    \A h \in Clients :
        ~(value[TheLatent] # None /\ tres[h] = Panicked("wait"))


\* ------------------------------------------------------------ Event
\* An Option<T> or Vec<T> that a listener or a select call returns is a
\* sequence: <<>> is None (or the empty Vec), <<v>> is Some(v).
Listeners == DOMAIN equeue
Futures == DOMAIN spc
Range(s) == {s[i] : i \in DOMAIN s}

\* Identity of the listener of a LatentGroup, and of no listener; the
\* listener of the LatentWaiter call with registration id k is k.
GroupListener == -1
NoListener == -2

\* Event (event.rs 99-102) registered under a registration id.
Event(id, lis, tag) == [id |-> id, lis |-> lis, tag |-> tag]

\* Thread s holds the value mutex and the events mutex of l from the first
\* line of set to its last (latent.rs 62-78).
ValueLocked(l) == spc[l] \in {"drain", "drop"}

\* Condvar::notify_all on SharedData.trigger (event.rs 31).
ENotifyAll(pc, lis) ==
    [t \in DOMAIN pc |->
        IF pc[t] = "e_wait" /\ call[t].lis = lis THEN "e_woken" ELSE pc[t]]

\* VecDeque::pop_front of triggered_events (event.rs 40, 48, 62).
EPopBack(q) == [val |-> q[Len(q)], rest |-> SubSeq(q, 1, Len(q) - 1)]
EPopFront(q) == [val |-> Head(q), rest |-> Tail(q)]

\* The test of wait_one that nothing is left to fire (event.rs 43).
NothingPendingNever(n) == FALSE
NothingPending(n) == n < 1

\* SharedData::trigger (event.rs 28-32) on listener lis with value v.
ETriggerFront(lis, v) ==
    /\ equeue' = [equeue EXCEPT ![lis] = <<v>> \o @]
    /\ firedlog' = [firedlog EXCEPT ![lis] = Append(@, v)]

ETrigger(lis, v) ==
    /\ equeue' = [equeue EXCEPT ![lis] = Append(@, v)]
    /\ firedlog' = [firedlog EXCEPT ![lis] = Append(@, v)]

\* Event::drop (event.rs 122-124) run once for each event of the set evs.
EDropAll(cnt, evs) ==
    [k \in DOMAIN cnt |-> cnt[k] - Cardinality({e \in evs : e.lis = k})]

\* ------------------------------------------------ Latent::set with events
\* latent.rs 62-73: the setter thread of l takes the value mutex, stores the
\* value and wakes the threads blocked in wait(); with no event registered
\* it returns.
SetBegin(l) ==
    /\ spc[l] = "idle"
    /\ LatentSetEffect(l, l)
    /\ spc' = [spc EXCEPT ![l] = IF events[l] = {} THEN "done" ELSE "drain"]
    /\ donebefore' = [donebefore EXCEPT ![l] =
                         {y \in (IF l \in added THEN added ELSE Futures) :
                             spc[y] = "done"}]
    /\ UNCHANGED <<events, sheld, equeue, ecount, firedlog, takenlog>>
    /\ UNCHANGED <<tlat, tres, waited>>
    /\ UNCHANGED <<waiter_count, call, glatents, gcounter, added, retlog>>

\* latent.rs 72-76: one event is taken out of the map and triggered
\* (event.rs 114-116, 28-32); HashMap::drain yields them in any order.
SetTrigger(l) ==
    /\ spc[l] = "drain"
    /\ \E e \in events[l] :
          /\ events' = [events EXCEPT ![l] = @ \ {e}]
          /\ ETrigger(e.lis, e.tag)
          /\ tpc' = ENotifyAll(tpc, e.lis)
          /\ sheld' = [sheld EXCEPT ![l] = e.lis]
    /\ spc' = [spc EXCEPT ![l] = "drop"]
    /\ UNCHANGED <<value, poisoned, ecount, takenlog>>
    /\ UNCHANGED <<tlat, tres, waited, selectVars>>
    /\ UNCHANGED donebefore

\* event.rs 116, 122-124: the triggered event goes out of scope at the end of
\* Event::trigger, after the listener's mutex has been released; after the
\* last event set returns and releases its two mutexes (latent.rs 78).
SetDropEvent(l) ==
    /\ spc[l] = "drop"
    /\ ecount' = [ecount EXCEPT ![sheld[l]] = @ - 1]
    /\ sheld' = [sheld EXCEPT ![l] = NoListener]
    /\ spc' = [spc EXCEPT ![l] = IF events[l] = {} THEN "done" ELSE "drain"]
    /\ UNCHANGED <<value, poisoned, events, equeue, firedlog, takenlog>>
    /\ UNCHANGED <<clientVars, selectVars>>
    /\ UNCHANGED donebefore

\* ------------------------------------------- Latent::add_event, remove_event
\* latent.rs 96-105 with the event ev that create_event has just made
\* (event.rs 146-148, 107-110).  An unset Latent stores it, and the event it
\* replaces under the same id is dropped; a set Latent triggers it, and it is
\* dropped at the end of trigger.  The caller is the listener's consumer, so
\* the notify_all of trigger finds nobody parked.
IsNoneAlways(v) == TRUE
IsNone(v) == v = None

LatentAddEvent(l, ev) ==
    /\ ~ValueLocked(l)
    /\ IF IsNone(value[l])
       THEN /\ events' = [events EXCEPT ![l] = {e \in @ : e.id # ev.id} \cup {ev}]
            /\ ecount' = [EDropAll(ecount, {e \in events[l] : e.id = ev.id})
                            EXCEPT ![ev.lis] = @ + 1]
            /\ UNCHANGED <<equeue, firedlog>>
       ELSE /\ ETrigger(ev.lis, ev.tag)
            /\ UNCHANGED <<events, ecount>>

\* latent.rs 109-112
RemoveEventNoop(evs, id) == evs
RemoveEvent(evs, id) == {e \in evs : e.id # id}

LatentRemoveEvent(l, id) ==
    /\ ~ValueLocked(l)
    /\ events' = [events EXCEPT ![l] = RemoveEvent(@, id)]
    /\ ecount' = EDropAll(ecount, events[l] \ RemoveEvent(events[l], id))

\* ------------------------------------------------ results of the listener
\* The locals of a client that is in no select call.
NoCall == [op |-> "none", list |-> <<>>, id |-> 0, lis |-> NoListener, i |-> 0,
           acc |-> <<>>, ready0 |-> {}, clean |-> TRUE]

\* HashMap::remove of the ids of a Vec (latent.rs 222, 234-240).
GroupTaken(ids) ==
    LET present == SelectSeq(ids, LAMBDA k : k \in DOMAIN glatents)
    IN  [i \in 1..Len(present) |-> glatents[present[i]]]

GroupKeepAll(ids) == glatents
GroupRest(ids) ==
    [k \in DOMAIN glatents \ Range(ids) |-> glatents[k]]

\* What client c does with the values vals that SharedData::wait_one (<<>>
\* or one value) or the drain of wait_some handed to it: LatentWaiter::wait_one
\* goes on to unregister (latent.rs 140-148); SharedData::wait_all ends on an
\* empty wait_some and loops otherwise (event.rs 81-91, latent.rs 180); the
\* group removes and returns the members (latent.rs 219-225, 231-242); the
\* owner of a listener that calls it directly gets the values as they are
\* (event.rs 152-166).
Deliver(c, vals) ==
    CASE call[c].op = "wait_one" ->
            /\ call' = [call EXCEPT ![c].acc = vals, ![c].i = 0]
            /\ IF call[c].list = <<>>
               THEN /\ tpc' = [tpc EXCEPT ![c] = "idle"]
                    /\ tres' = [tres EXCEPT ![c] = Returned("wait_one", vals)]
               ELSE /\ tpc' = [tpc EXCEPT ![c] = "w_unreg"]
                    /\ UNCHANGED tres
            /\ UNCHANGED <<glatents, retlog>>
      [] call[c].op \in {"wait_all", "l_wait_all"} ->
            /\ IF vals = <<>>
               THEN /\ tpc' = [tpc EXCEPT ![c] = "idle"]
                    /\ tres' = [tres EXCEPT ![c] = Returned(call[c].op, call[c].acc)]
                    /\ UNCHANGED call
               ELSE /\ tpc' = [tpc EXCEPT ![c] = "e_some"]
                    /\ call' = [call EXCEPT ![c].acc = @ \o vals]
                    /\ UNCHANGED tres
            /\ UNCHANGED <<glatents, retlog>>
      [] call[c].op \in {"g_wait_one", "g_wait_some"} ->
            /\ tpc' = [tpc EXCEPT ![c] = "idle"]
            /\ tres' = [tres EXCEPT ![c] = Returned(call[c].op, GroupTaken(vals))]
            /\ glatents' = GroupRest(vals)
            /\ retlog' = retlog \o GroupTaken(vals)
            /\ call' = [call EXCEPT ![c] = NoCall]
      [] call[c].op \in {"l_wait_one", "l_wait_some"} ->
            /\ tpc' = [tpc EXCEPT ![c] = "idle"]
            /\ tres' = [tres EXCEPT ![c] = Returned(call[c].op, vals)]
            /\ call' = [call EXCEPT ![c] = NoCall]
            /\ UNCHANGED <<glatents, retlog>>

\* ------------------------------------------------------ SharedData::wait_one
\* event.rs 37-47: a queued value is popped; with nothing queued and nothing
\* pending the call returns None; otherwise the thread parks.  event_count is
\* read under the listener's mutex; the threads that change it hold no mutex
\* and never read it, so the section is one step.
EWaitOne(c) ==
    /\ tpc[c] = "e_one"
    /\ LET k == call[c].lis IN
       IF Len(equeue[k]) > 0
       THEN /\ equeue' = [equeue EXCEPT ![k] = EPopFront(@).rest]
            /\ takenlog' = [takenlog EXCEPT ![k] = Append(@, EPopFront(equeue[k]).val)]
            /\ Deliver(c, <<EPopFront(equeue[k]).val>>)
       ELSE IF NothingPending(ecount[k])
       THEN /\ Deliver(c, <<>>)
            /\ UNCHANGED <<equeue, takenlog>>
       ELSE /\ tpc' = [tpc EXCEPT ![c] = "e_wait"]
            /\ UNCHANGED <<tres, call, glatents, retlog, equeue, takenlog>>
    /\ UNCHANGED <<value, poisoned, events, spc, sheld, ecount, firedlog>>
    /\ UNCHANGED <<tlat, waited, waiter_count, gcounter, added>>
    /\ UNCHANGED donebefore

\* event.rs 47-48: the woken thread takes the mutex and returns pop_front(),
\* whatever it is; the wait is not repeated.
EWaitOneWake(c) ==
    /\ tpc[c] = "e_woken"
    /\ LET k == call[c].lis IN
       IF Len(equeue[k]) > 0
       THEN /\ equeue' = [equeue EXCEPT ![k] = EPopFront(@).rest]
            /\ takenlog' = [takenlog EXCEPT ![k] = Append(@, EPopFront(equeue[k]).val)]
            /\ Deliver(c, <<EPopFront(equeue[k]).val>>)
       ELSE /\ Deliver(c, <<>>)
            /\ UNCHANGED <<equeue, takenlog>>
    /\ UNCHANGED <<value, poisoned, events, spc, sheld, ecount, firedlog>>
    /\ UNCHANGED <<tlat, waited, waiter_count, gcounter, added>>
    /\ UNCHANGED donebefore

\* Condvar::wait may return without a notification.
ESpuriousWake(c) ==
    /\ tpc[c] = "e_wait"
    /\ tpc' = [tpc EXCEPT ![c] = "e_woken"]
    /\ UNCHANGED <<latentVars, eventVars, selectVars, tlat, tres, waited>>

\* ----------------------------------------------------- SharedData::wait_some
\* event.rs 56-67: everything queued is drained; with nothing queued the
\* mutex is released and wait_one is called (event.rs 69-73).
EWaitSome(c) ==
    /\ tpc[c] = "e_some"
    /\ LET k == call[c].lis IN
       IF Len(equeue[k]) > 0
       THEN /\ equeue' = [equeue EXCEPT ![k] = <<>>]
            /\ takenlog' = [takenlog EXCEPT ![k] = @ \o equeue[k]]
            /\ Deliver(c, equeue[k])
       ELSE /\ tpc' = [tpc EXCEPT ![c] = "e_one"]
            /\ UNCHANGED <<tres, call, glatents, retlog, equeue, takenlog>>
    /\ UNCHANGED <<value, poisoned, events, spc, sheld, ecount, firedlog>>
    /\ UNCHANGED <<tlat, waited, waiter_count, gcounter, added>>
    /\ UNCHANGED donebefore


\* ------------------------------------------------------------ LatentWaiter
\* The locals of a select call: the listener's operation it ends in, the list
\* of futures, the registration id, the listener, the loop index, the values
\* received so far; ready0 and clean are history: the futures of the list
\* whose set() had returned when the call began, and whether the set() of
\* every other one began only after the last add_event.
Call(op, list, id, lis) ==
    [op |-> op, list |-> list, id |-> id, lis |-> lis, i |-> 0, acc |-> <<>>,
     ready0 |-> {l \in Range(list) : spc[l] = "done"}, clean |-> list = <<>>]

\* Position of the client when it enters the listener's operation.
FirstPc(op) ==
    IF op \in {"wait_one", "g_wait_one", "l_wait_one"} THEN "e_one" ELSE "e_some"

\* The list a call is given: the futures are distinct and no other future
\* exists, so they are numbered in the order of the list.
AllFutures == [i \in 1..Cardinality(Futures) |-> i]

\* latent.rs 133-134, 173-174: WAITER_COUNT.increment() returns the value
\* before the increment (atomic.rs 33-35); a new listener is made.  A
\* behaviour follows one call of the client.
WaiterCall(c, op, list) ==
    /\ tpc[c] = "idle"
    /\ call[c] = NoCall
    /\ waiter_count' = waiter_count + 1
    /\ call' = [call EXCEPT ![c] = Call(op, list, waiter_count, waiter_count)]
    /\ tpc' = [tpc EXCEPT ![c] = IF list = <<>> THEN FirstPc(op) ELSE "w_reg"]
    /\ UNCHANGED <<latentVars, eventVars, tlat, tres, waited>>
    /\ UNCHANGED <<glatents, gcounter, added, retlog>>

\* latent.rs 136-138, 176-178: one turn of the registration loop.
WaiterAddEvent(c) ==
    /\ tpc[c] = "w_reg"
    /\ LET i == call[c].i
           list == call[c].list
       IN  /\ LatentAddEvent(list[i + 1], Event(call[c].id, call[c].lis, i))
           /\ call' = [call EXCEPT ![c].i = i + 1,
                                   ![c].clean = \A x \in Range(list) \ call[c].ready0 :
                                                    spc[x] = "idle"]
           /\ tpc' = [tpc EXCEPT ![c] =
                        IF i + 1 = Len(list) THEN FirstPc(call[c].op) ELSE "w_reg"]
    /\ UNCHANGED <<value, poisoned, spc, sheld, takenlog>>
    /\ UNCHANGED <<tlat, tres, waited>>
    /\ UNCHANGED <<waiter_count, glatents, gcounter, added, retlog>>
    /\ UNCHANGED donebefore

\* latent.rs 144-148: one turn of the loop that unregisters; after the last
\* one wait_one returns the index.
WaiterRemoveEvent(c) ==
    /\ tpc[c] = "w_unreg"
    /\ LET i == call[c].i
           list == call[c].list
       IN  /\ LatentRemoveEvent(list[i + 1], call[c].id)
           /\ call' = [call EXCEPT ![c].i = i + 1]
           /\ IF i + 1 = Len(list)
              THEN /\ tpc' = [tpc EXCEPT ![c] = "idle"]
                   /\ tres' = [tres EXCEPT ![c] = Returned("wait_one", call[c].acc)]
              ELSE UNCHANGED <<tpc, tres>>
    /\ UNCHANGED <<value, poisoned, spc, sheld, equeue, firedlog, takenlog>>
    /\ UNCHANGED <<tlat, waited>>
    /\ UNCHANGED <<waiter_count, glatents, gcounter, added, retlog>>
    /\ UNCHANGED donebefore

\* ------------------------------------------------------------ LatentGroup
\* latent.rs 207-214; the futures added to a group are distinct, and they
\* are numbered in the order in which they are added.
GroupAdd(c, l) ==
    /\ tpc[c] = "idle"
    /\ l \notin added
    /\ l = gcounter + 1
    /\ LatentAddEvent(l, Event(0, GroupListener, gcounter + 1))
    /\ gcounter' = gcounter + 1
    /\ glatents' = [k \in DOMAIN glatents \cup {gcounter + 1} |->
                      IF k = gcounter + 1 THEN l ELSE glatents[k]]
    /\ added' = added \cup {l}
    /\ donebefore' = IF value[l] # None
                     THEN [donebefore EXCEPT ![l] = {y \in added : spc[y] = "done"}]
                     ELSE donebefore
    /\ tres' = [tres EXCEPT ![c] = Returned("add", <<>>)]
    /\ UNCHANGED <<value, poisoned, spc, sheld, takenlog>>
    /\ UNCHANGED <<tpc, tlat, waited, waiter_count, call, retlog>>

\* latent.rs 218-219
GroupWaitOne(c) ==
    /\ tpc[c] = "idle"
    /\ call' = [call EXCEPT ![c] = Call("g_wait_one", <<>>, 0, GroupListener)]
    /\ tpc' = [tpc EXCEPT ![c] = FirstPc("g_wait_one")]
    /\ UNCHANGED <<latentVars, eventVars, tlat, tres, waited>>
    /\ UNCHANGED <<waiter_count, glatents, gcounter, added, retlog>>

\* latent.rs 230-231; ready0 records the members whose set() has returned.
GroupWaitSome(c) ==
    /\ tpc[c] = "idle"
    /\ call' = [call EXCEPT ![c] =
                   [Call("g_wait_some", <<>>, 0, GroupListener) EXCEPT
                       !.ready0 = {l \in Range(glatents) : spc[l] = "done"}]]
    /\ tpc' = [tpc EXCEPT ![c] = FirstPc("g_wait_some")]
    /\ UNCHANGED <<latentVars, eventVars, tlat, tres, waited>>
    /\ UNCHANGED <<waiter_count, glatents, gcounter, added, retlog>>

\* ------------------------------------------------- specification: selector
\* No channel and no pool.
ChannelPoolInert ==
    /\ deque = <<>>
    /\ end_count = 0
    /\ open_count = 0
    /\ wait_count = 0
    /\ instance_counter = 0
    /\ mutex = NoOne
    /\ epc = <<>>
    /\ lwait = <<>>
    /\ lopen = <<>>
    /\ lwaiting = <<>>
    /\ got = <<>>
    /\ putlog = <<>>
    /\ recvlog = <<>>
    /\ running_count = 0
    /\ sigvalue = 0
    /\ wpc = <<>>
    /\ task = <<>>
    /\ counter = 0
    /\ execs = <<>>
    /\ sets = <<>>

\* n Latents (latent.rs 46-50), each with a thread that will set it once,
\* and one client thread.
FuturesInit(n) ==
    /\ ChannelPoolInert
    /\ AuxInert
    /\ NeverEnded
    /\ value = [l \in 1..n |-> None]
    /\ poisoned = [l \in 1..n |-> FALSE]
    /\ events = [l \in 1..n |-> {}]
    /\ spc = [l \in 1..n |-> "idle"]
    /\ sheld = [l \in 1..n |-> NoListener]
    /\ donebefore = [l \in 1..n |-> {}]
    /\ tpc = [c \in {Caller} |-> "idle"]
    /\ tlat = [c \in {Caller} |-> 0]
    /\ tres = [c \in {Caller} |-> Returned("new", 0)]
    /\ call = [c \in {Caller} |-> NoCall]
    /\ waited = {}
    /\ waiter_count = 0
    /\ added = {}
    /\ retlog = <<>>

\* The listener is the one the call will make (latent.rs 134, 174).
WaiterInit ==
    /\ \E n \in 0..MaxFutures : FuturesInit(n)
    /\ equeue = [k \in {0} |-> <<>>]
    /\ ecount = [k \in {0} |-> 0]
    /\ firedlog = [k \in {0} |-> <<>>]
    /\ takenlog = [k \in {0} |-> <<>>]
    /\ glatents = <<>>
    /\ gcounter = 0

SelectOnly == UNCHANGED <<chanVars, poolVars, auxVars, endlen>>

WaiterNext ==
    \/ \E l \in Futures : SetBegin(l) /\ SelectOnly
    \/ \E l \in Futures : SetTrigger(l) /\ SelectOnly
    \/ \E l \in Futures : SetDropEvent(l) /\ SelectOnly
    \/ \E c \in Clients : WaiterCall(c, "wait_one", AllFutures) /\ SelectOnly
    \/ \E c \in Clients : WaiterCall(c, "wait_all", AllFutures) /\ SelectOnly
    \/ \E c \in Clients : WaiterAddEvent(c) /\ SelectOnly
    \/ \E c \in Clients : EWaitOne(c) /\ SelectOnly
    \/ \E c \in Clients : EWaitOneWake(c) /\ SelectOnly
    \/ \E c \in Clients : ESpuriousWake(c) /\ SelectOnly
    \/ \E c \in Clients : EWaitSome(c) /\ SelectOnly
    \/ \E c \in Clients : WaiterRemoveEvent(c) /\ SelectOnly

WaiterSpec == WaiterInit /\ [][WaiterNext]_vars

\* --------------------------------------------------- specification: group
\* LatentGroup::new (latent.rs 197-203)
GroupInit ==
    /\ \E n \in 0..MaxFutures : FuturesInit(n)
    /\ equeue = [k \in {GroupListener} |-> <<>>]
    /\ ecount = [k \in {GroupListener} |-> 0]
    /\ firedlog = [k \in {GroupListener} |-> <<>>]
    /\ takenlog = [k \in {GroupListener} |-> <<>>]
    /\ glatents = <<>>
    /\ gcounter = 0

GroupNext ==
    \/ \E l \in Futures : SetBegin(l) /\ SelectOnly
    \/ \E l \in Futures : SetTrigger(l) /\ SelectOnly
    \/ \E l \in Futures : SetDropEvent(l) /\ SelectOnly
    \/ \E c \in Clients, l \in Futures : GroupAdd(c, l) /\ SelectOnly
    \/ \E c \in Clients : GroupWaitOne(c) /\ SelectOnly
    \/ \E c \in Clients : GroupWaitSome(c) /\ SelectOnly
    \/ \E c \in Clients : EWaitOne(c) /\ SelectOnly
    \/ \E c \in Clients : EWaitOneWake(c) /\ SelectOnly
    \/ \E c \in Clients : ESpuriousWake(c) /\ SelectOnly
    \/ \E c \in Clients : EWaitSome(c) /\ SelectOnly

GroupSpec == GroupInit /\ [][GroupNext]_vars


\* ------------------------------------------------- claims on LatentWaiter
\* C13: wait_one returns Some(i) only for an index i of the list whose
\* future is ready; on an empty list it returns None and never parks; on a
\* non-empty list it does not return None in a behaviour in which a future
\* of the list is set.
C13_WaitOneReturnsReadyIndex ==
    \A c \in Clients :
        /\ (call[c].op = "wait_one" /\ call[c].list = <<>>) => tpc[c] # "e_wait"
        /\ tres[c].op = "wait_one" =>
              LET r == tres[c].val
                  list == call[c].list
              IN  /\ r # <<>> =>
                        /\ r[1] \in 0..(Len(list) - 1)
                        /\ value[list[r[1] + 1]] # None
                  /\ list = <<>> => r = <<>>
                  /\ (list # <<>> /\ \E l \in Range(list) : value[l] # None)
                        => r # <<>>


FutureAt(c, r, j) == call[c].list[r[j] + 1]

\* C15: wait_all returns indices in firing order.  When the futures that
\* were set after the call began were all set after the registration, the
\* result starts with the indices of the futures already resolved at the
\* call, and a future whose set() had returned before the set() of another
\* began comes before it; no index comes twice.
C15_WaitAllFiringOrder ==
    \A c \in Clients :
        (tres[c].op = "wait_all" /\ call[c].clean) =>
            LET r == tres[c].val IN
            /\ \A l \in call[c].ready0 : \E j \in DOMAIN r : FutureAt(c, r, j) = l
            /\ \A i, j \in DOMAIN r :
                  /\ (i < j /\ FutureAt(c, r, j) \in call[c].ready0)
                        => FutureAt(c, r, i) \in call[c].ready0
                  /\ r[i] = r[j] => i = j
            /\ \A j \in DOMAIN r :
                  FutureAt(c, r, j) \notin call[c].ready0 =>
                      \A x \in donebefore[FutureAt(c, r, j)] \ call[c].ready0 :
                          \E i \in 1..(j - 1) : FutureAt(c, r, i) = x

C15_Witness ==
    \E c \in Clients :
        /\ tres[c] = Returned("wait_all", <<1, 2, 0>>)
        /\ call[c].clean
        /\ call[c].ready0 = {2}
        /\ donebefore[1] = {2, 3}

\* C16: wait_all over futures that are each set once never stays blocked
\* once the last of them has been set.
C16_WaitAllNeverStuck ==
    \A c \in Clients :
        ~(/\ call[c].op = "wait_all"
          /\ tpc[c] = "e_wait"
          /\ \A l \in Range(call[c].list) : spc[l] = "done")

\* -------------------------------------------------- claims on LatentGroup
\* C17: the group returns ready members, each once, in the order in which
\* they fired: a member whose event had fired (it was set and added) before
\* the firing of another began is returned before it.
C17_GroupReturnsInSetOrder ==
    /\ \A j \in DOMAIN retlog : value[retlog[j]] # None
    /\ \A i, j \in DOMAIN retlog : retlog[i] = retlog[j] => i = j
    /\ \A j \in DOMAIN retlog :
          \A y \in donebefore[retlog[j]] : \E i \in 1..(j - 1) : retlog[i] = y

C17_Witness ==
    /\ retlog = <<3, 1, 2>>
    /\ donebefore[1] = {3}
    /\ donebefore[2] = {1, 3}
    /\ \E c \in Clients : tres[c] = Returned("g_wait_one", <<2>>)

\* C18: wait_one on a group without pending interest (nothing added, or
\* every member returned and every set() over) does not block.
C18_GroupWaitOneNeverBlocksIdle ==
    \A c \in Clients :
        ~(/\ call[c].op = "g_wait_one"
          /\ tpc[c] = "e_wait"
          /\ DOMAIN glatents = {}
          /\ \A l \in added : spc[l] = "done")

\* C19: a wait_some called while a member is set and not yet returned does
\* not block and returns every such member; the futures it returns are
\* ready members that leave the group, and no member is returned twice.
C19_GroupWaitSomeDrainsReady ==
    /\ [](\A c \in Clients :
            (call[c].op = "g_wait_some" /\ call[c].ready0 # {})
                => tpc[c] = "e_some")
    /\ [](\A i, j \in DOMAIN retlog : retlog[i] = retlog[j] => i = j)
    /\ [][\A c \in Clients :
            (call[c].op = "g_wait_some" /\ tpc'[c] = "idle") =>
                /\ call[c].ready0 # {} => call[c].ready0 \subseteq Range(tres'[c].val)
                /\ \A l \in Range(tres'[c].val) :
                      /\ value[l] # None
                      /\ l \in Range(glatents)
                      /\ l \notin Range(glatents')]_vars

C19_Witness ==
    /\ Len(retlog) = 3
    /\ \E c \in Clients : tres[c].op = "g_wait_some" /\ Len(tres[c].val) = 2

\* ------------------------------------------------ claims on EventListener
\* C20: with one consumer, the values the waits return are the fired values
\* in firing order, each once, the rest being queued; a wait_one that finds
\* nothing queued and nothing pending returns None at once; and no wait_one
\* returns None while a value is queued.
C20_ListenerWaitOne ==
    /\ [](\A k \in Listeners : firedlog[k] = takenlog[k] \o equeue[k])
    /\ [][\A c \in Clients :
            (/\ tpc[c] = "e_one"
             /\ equeue[call[c].lis] = <<>>
             /\ ecount[call[c].lis] < 1
             /\ tpc'[c] # tpc[c])
                => (tpc'[c] = "idle" /\ tres'[c].val = <<>>)]_vars
    /\ [][\A c \in Clients :
            (/\ tpc[c] \in {"e_one", "e_woken"}
             /\ tpc'[c] = "idle"
             /\ tres'[c].val = <<>>)
                => equeue[call[c].lis] = <<>>]_vars

C20_Witness ==
    /\ Len(takenlog[GroupListener]) = 2
    /\ Len(equeue[GroupListener]) = 1
    /\ \E c \in Clients : tres[c] = Returned("g_wait_one", <<>>)

\* ------------------------------------------------------------ Gate
\* Condvar::notify_all on Gate.condvar (signal.rs 77).
GateNotifyAll(pc) ==
    [t \in DOMAIN pc |-> IF pc[t] = "gt_wait" THEN "gt_woken" ELSE pc[t]]

\* The loop test of Gate::wait (signal.rs 92).
GateBlockedNever(open) == FALSE
GateBlocked(open) == ~open

\* Gate::open (signal.rs 74-78)
GateOpen(c) ==
    /\ tpc[c] = "idle"
    /\ opens < MaxOpens
    /\ gate_open' = TRUE
    /\ opens' = opens + 1
    /\ tpc' = GateNotifyAll(tpc)
    /\ tres' = [tres EXCEPT ![c] = Returned("open", 0)]
    /\ UNCHANGED <<tlat, waited, sigseen>>

\* Gate::close (signal.rs 82-85)
GateClose(c) ==
    /\ tpc[c] = "idle"
    /\ gate_open' = FALSE
    /\ tres' = [tres EXCEPT ![c] = Returned("close", 0)]
    /\ UNCHANGED <<tpc, tlat, waited, opens, sigseen>>

\* Gate::wait (signal.rs 89-95) up to the first Condvar::wait; the result
\* records how many open() calls came before the return.
GateWait(c) ==
    /\ tpc[c] = "idle"
    /\ IF GateBlocked(gate_open)
       THEN /\ tpc' = [tpc EXCEPT ![c] = "gt_wait"]
            /\ UNCHANGED tres
       ELSE /\ tres' = [tres EXCEPT ![c] = Returned("gate_wait", opens)]
            /\ UNCHANGED tpc
    /\ UNCHANGED <<tlat, waited, gate_open, opens, sigseen>>

\* signal.rs 92-94: the woken waiter takes the lock and tests the bool again.
GateWaitWake(c) ==
    /\ tpc[c] = "gt_woken"
    /\ IF GateBlocked(gate_open)
       THEN /\ tpc' = [tpc EXCEPT ![c] = "gt_wait"]
            /\ UNCHANGED tres
       ELSE /\ tres' = [tres EXCEPT ![c] = Returned("gate_wait", opens)]
            /\ tpc' = [tpc EXCEPT ![c] = "idle"]
    /\ UNCHANGED <<tlat, waited, gate_open, opens, sigseen>>

\* Condvar::wait may return without a notification.
GateSpuriousWake(c) ==
    /\ tpc[c] = "gt_wait"
    /\ tpc' = [tpc EXCEPT ![c] = "gt_woken"]
    /\ UNCHANGED <<tlat, tres, waited, gate_open, opens, sigseen>>

\* No Latent and no select call.
LatentSelectInert ==
    /\ SelectInert
    /\ value = <<>>
    /\ poisoned = <<>>
    /\ tlat = <<>>
    /\ waited = {}

\* Gate::new (signal.rs 59-64): closed; GateThreads threads share it.
GateInit ==
    /\ ChannelPoolInert
    /\ LatentSelectInert
    /\ LockInert
    /\ HolderInert
    /\ NeverEnded
    /\ gate_open = FALSE
    /\ opens = 0
    /\ sigseen = <<>>
    /\ integer = 0
    /\ init0 = 0
    /\ deltasum = 0
    /\ tpc = [c \in 1..GateThreads |-> "idle"]
    /\ tres = [c \in 1..GateThreads |-> Returned("new", 0)]

GateOnly ==
    UNCHANGED <<chanVars, latentVars, poolVars, eventVars, selectVars,
                counterVars, lockVars, holderVars, endlen>>

GateNext ==
    \/ \E c \in Clients : GateOpen(c) /\ GateOnly
    \/ \E c \in Clients : GateClose(c) /\ GateOnly
    \/ \E c \in Clients : GateWait(c) /\ GateOnly
    \/ \E c \in Clients : GateWaitWake(c) /\ GateOnly
    \/ \E c \in Clients : GateSpuriousWake(c) /\ GateOnly

GateSpec == GateInit /\ [][GateNext]_vars

\* ----------------------------------------------------------- claims on Gate
\* C21: a Gate.wait() blocks (parks, at its start or after a wakeup) only
\* while the gate is closed, so a wait() that starts with the gate open
\* returns without blocking, whatever the number of open() calls before it;
\* and a wait() returns only in a state where the gate is open.
C21_GateLevelTriggered ==
    [][\A c \in Clients :
         /\ (tpc[c] \in {"idle", "gt_woken"} /\ tpc'[c] = "gt_wait")
               => ~gate_open
         /\ (/\ tres'[c].op = "gate_wait"
             /\ \/ tres'[c] # tres[c]
                \/ tpc[c] = "gt_woken" /\ tpc'[c] = "idle")
               => (gate_open /\ gate_open')]_vars

C21_Witness ==
    /\ gate_open
    /\ opens = 2
    /\ \E c \in Clients : tpc[c] = "idle" /\ tres[c] = Returned("gate_wait", 2)
    /\ \E c \in Clients : tres[c] = Returned("open", 0)

\* ------------------------------------------------- a Signal used on its own
\* Threads parked in Signal.cvar (signal.rs 42).
SignalParked == {t \in Clients : tpc[t] = "s_wait"}

\* Signal::signal_all (signal.rs 24-28); the result records the new counter.
SignalAll(c) ==
    /\ tpc[c] = "idle"
    /\ sigvalue < MaxSignals
    /\ sigvalue' = sigvalue + 1
    /\ tpc' = SignalNotifyAll(tpc)
    /\ tres' = [tres EXCEPT ![c] = Returned("signal_all", sigvalue + 1)]
    /\ UNCHANGED <<tlat, waited, gate_open, opens, sigseen>>

\* Signal::signal_one (signal.rs 32-36): notify_one releases one parked
\* thread, any of them, or nobody when none is parked.
SignalOne(c) ==
    /\ tpc[c] = "idle"
    /\ sigvalue < MaxSignals
    /\ sigvalue' = sigvalue + 1
    /\ IF SignalParked = {}
       THEN UNCHANGED tpc
       ELSE \E w \in SignalParked : tpc' = [tpc EXCEPT ![w] = "s_woken"]
    /\ tres' = [tres EXCEPT ![c] = Returned("signal_one", sigvalue + 1)]
    /\ UNCHANGED <<tlat, waited, gate_open, opens, sigseen>>

\* Signal::wait, signal.rs 41-42: lock and park, whatever the counter is.
SignalWait(c) ==
    /\ tpc[c] = "idle"
    /\ tpc' = [tpc EXCEPT ![c] = "s_wait"]
    /\ sigseen' = [sigseen EXCEPT ![c] = sigvalue]
    /\ UNCHANGED <<tlat, tres, waited, gate_open, opens, sigvalue>>

\* Signal::wait, signal.rs 42-43: the woken thread returns the counter; the
\* wait is not repeated.
SignalWaitReturn(c) ==
    /\ tpc[c] = "s_woken"
    /\ tpc' = [tpc EXCEPT ![c] = "idle"]
    /\ tres' = [tres EXCEPT ![c] = Returned("signal_wait", sigvalue)]
    /\ UNCHANGED <<tlat, waited, gate_open, opens, sigseen, sigvalue>>

\* Condvar::wait may return without a notification (signal.rs 42).
SignalWaitSpuriousWake(c) ==
    /\ SignalSpuriousWake(c)
    /\ UNCHANGED <<gate_open, opens, sigseen, sigvalue>>

\* Signal::new (signal.rs 15-20): counter 0; SignalThreads threads share it.
SignalInit ==
    /\ ChannelPoolInert
    /\ LatentSelectInert
    /\ LockInert
    /\ HolderInert
    /\ NeverEnded
    /\ gate_open = FALSE
    /\ opens = 0
    /\ sigseen = [c \in 1..SignalThreads |-> 0]
    /\ integer = 0
    /\ init0 = 0
    /\ deltasum = 0
    /\ tpc = [c \in 1..SignalThreads |-> "idle"]
    /\ tres = [c \in 1..SignalThreads |-> Returned("new", 0)]

SignalOnly ==
    UNCHANGED <<chanVars, latentVars, running_count, wpc, task, counter,
                execs, sets, eventVars, selectVars, counterVars, lockVars,
                holderVars, endlen>>

SignalNext ==
    \/ \E c \in Clients : SignalAll(c) /\ SignalOnly
    \/ \E c \in Clients : SignalOne(c) /\ SignalOnly
    \/ \E c \in Clients : SignalWait(c) /\ SignalOnly
    \/ \E c \in Clients : SignalWaitReturn(c) /\ SignalOnly
    \/ \E c \in Clients : SignalWaitSpuriousWake(c) /\ SignalOnly

SignalSpec == SignalInit /\ [][SignalNext]_vars

\* --------------------------------------------------------- claims on Signal
\* C22: a Signal.wait() leaves its blocked state only in the step of a
\* signal_all or signal_one call, so it returns only after a signal raised
\* after it began to block (the counter has grown since it parked), and a
\* wait that starts after the last signal stays blocked; a signal_all
\* releases every thread that is blocked when it is called.
C22_SignalEdgeTriggered ==
    [][\A c \in Clients :
         /\ (tpc[c] = "s_wait" /\ tpc'[c] # "s_wait") => sigvalue' > sigvalue
         /\ (tpc[c] = "s_woken" /\ tpc'[c] = "idle") => sigvalue > sigseen[c]
         /\ tres'[c] = Returned("signal_all", sigvalue + 1) =>
               \A t \in SignalParked : tpc'[t] = "s_woken"]_vars

\* ------------------------------------------------------------ AtomicInteger
\* The range of the AtomicI32 (atomic.rs 7).
I32Max == 2147483647
I32Min == (-2147483647) - 1

\* cur + d in 32-bit two's complement: AtomicI32::fetch_add and fetch_sub
\* wrap around on overflow.
WrappingAdd(cur, d) ==
    IF d >= 0
    THEN IF cur > I32Max - d THEN I32Min + ((d - 1) - (I32Max - cur)) ELSE cur + d
    ELSE IF cur < I32Min - d THEN I32Max - (((-d) - 1) - (cur - I32Min)) ELSE cur + d

\* fetch_add and fetch_sub (atomic.rs 22, 28, 34, 40): the value read and the
\* value written, in one atomic step.
FetchAdd(cur, d) == [old |-> cur, new |-> WrappingAdd(cur, d)]
FetchSubAdds(cur, d) == [old |-> cur, new |-> WrappingAdd(cur, d)]
FetchSub(cur, d) == [old |-> cur, new |-> WrappingAdd(cur, -d)]

\* AtomicInteger::add (atomic.rs 21-23)
CounterAdd(c, d) ==
    /\ deltasum + d <= MaxSum
    /\ integer' = FetchAdd(integer, d).new
    /\ tres' = [tres EXCEPT ![c] = Returned("add", FetchAdd(integer, d).old)]
    /\ deltasum' = deltasum + d
    /\ UNCHANGED <<tpc, tlat, waited, init0>>

\* AtomicInteger::sub (atomic.rs 27-29)
CounterSub(c, d) ==
    /\ deltasum - d >= -MaxSum
    /\ integer' = FetchSub(integer, d).new
    /\ tres' = [tres EXCEPT ![c] = Returned("sub", FetchSub(integer, d).old)]
    /\ deltasum' = deltasum - d
    /\ UNCHANGED <<tpc, tlat, waited, init0>>

\* AtomicInteger::increment (atomic.rs 33-35)
CounterIncrement(c) ==
    /\ deltasum + 1 <= MaxSum
    /\ integer' = FetchAdd(integer, 1).new
    /\ tres' = [tres EXCEPT ![c] = Returned("increment", FetchAdd(integer, 1).old)]
    /\ deltasum' = deltasum + 1
    /\ UNCHANGED <<tpc, tlat, waited, init0>>

\* AtomicInteger::decrement (atomic.rs 39-41)
CounterDecrement(c) ==
    /\ deltasum - 1 >= -MaxSum
    /\ integer' = FetchSub(integer, 1).new
    /\ tres' = [tres EXCEPT ![c] = Returned("decrement", FetchSub(integer, 1).old)]
    /\ deltasum' = deltasum - 1
    /\ UNCHANGED <<tpc, tlat, waited, init0>>

\* AtomicInteger::get (atomic.rs 45-47)
CounterGet(c) ==
    /\ tres' = [tres EXCEPT ![c] = Returned("get", integer)]
    /\ UNCHANGED <<tpc, tlat, waited, integer, init0, deltasum>>

\* AtomicInteger::new (atomic.rs 13-17) with a value in the middle or at an
\* end of the range; CounterThreads threads share the counter.
CounterInits == {0, 13, I32Max - 1, I32Min + 1}

CounterInit ==
    /\ ChannelPoolInert
    /\ LatentSelectInert
    /\ LockInert
    /\ HolderInert
    /\ NeverEnded
    /\ gate_open = FALSE
    /\ opens = 0
    /\ sigseen = <<>>
    /\ integer \in CounterInits
    /\ init0 = integer
    /\ deltasum = 0
    /\ tpc = [c \in 1..CounterThreads |-> "idle"]
    /\ tres = [c \in 1..CounterThreads |-> Returned("new", 0)]

CounterOnly ==
    UNCHANGED <<chanVars, latentVars, poolVars, eventVars, selectVars,
                signalVars, lockVars, holderVars, endlen>>

CounterNext ==
    \/ \E c \in Clients, d \in 1..MaxDelta : CounterAdd(c, d) /\ CounterOnly
    \/ \E c \in Clients, d \in 1..MaxDelta : CounterSub(c, d) /\ CounterOnly
    \/ \E c \in Clients : CounterIncrement(c) /\ CounterOnly
    \/ \E c \in Clients : CounterDecrement(c) /\ CounterOnly
    \/ \E c \in Clients : CounterGet(c) /\ CounterOnly

CounterSpec == CounterInit /\ [][CounterNext]_vars

\* -------------------------------------------------- claims on AtomicInteger
\* init0 + deltasum is a 32-bit signed value.
SumInRange ==
    IF deltasum >= 0 THEN init0 <= I32Max - deltasum
                     ELSE init0 >= I32Min - deltasum

UpdateOps == {"add", "sub", "increment", "decrement"}

\* C23: whenever the initial value plus the sum of the deltas of the calls
\* made so far is in the 32-bit signed range, the counter holds it and a
\* get() returns it, for any interleaving of the calls; and each add, sub,
\* increment or decrement returns to its caller the value the counter held
\* just before its update.
C23_CounterLinearizable ==
    /\ [](SumInRange => integer = init0 + deltasum)
    /\ [][\A c \in Clients :
            (tres'[c] # tres[c] /\ tres'[c].op = "get" /\ SumInRange)
               => tres'[c].val = init0 + deltasum]_vars
    /\ [][integer' # integer =>
            \E c \in Clients :
               /\ tres'[c].op \in UpdateOps
               /\ tres'[c].val = integer
               /\ \A t \in Clients \ {c} : tres'[t] = tres[t]]_vars

C23_Witness ==
    /\ init0 = I32Max - 1
    /\ deltasum = 1
    /\ integer = I32Max
    /\ tres[1] = Returned("sub", I32Min)
    /\ tres[2] = Returned("get", I32Max)

\* ------------------------------------------- claims on the pool's workers
\* C25: while the ThreadPool is alive (its endpoint of the task queue is not
\* being released), no worker has received closed from get() and left its
\* loop.
C25_WorkersStayWhilePoolAlive ==
    epc[PoolEndpoint] = "ready" =>
        \A w \in Workers : wpc[w] \notin {"exit", "done"}

\* ------------------------------------------------ claims on Channel::get
\* Positions of an endpoint whose thread is inside get(), and of an endpoint
\* that is being or has been released, or does not exist yet.
InGet == {"g_open", "g_inc", "g_park", "g_wait", "g_woken"}
Released == {"d_read", "d_cmp", "dropped", "unborn"}

\* Endpoint e returns None from get() in this step.
GetReturnsClosed(e) ==
    /\ epc[e] \in {"ready", "g_open", "g_woken"}
    /\ epc'[e] = "ready"
    /\ got'[e] = None
    /\ epc[e] = "ready" => got[e] # None

\* C26: a get() returns closed only with the buffer empty and either an
\* end() called or every other endpoint inside get() or released: never
\* while another live endpoint that has not called end() is outside get()
\* and can still put.
C26_ClosedOnlyWhenNoProducer ==
    [][\A e \in Endpoints :
         GetReturnsClosed(e) =>
            /\ deque = <<>>
            /\ \/ end_count > 0
               \/ \A x \in Endpoints \ {e} : epc[x] \in InGet \cup Released]_vars

\* C27: once the ThreadPool has been dropped and every queued task has run,
\* no worker stays blocked in get(): there is no state in which the pool's
\* endpoint is released, nothing is queued or running, a worker is parked in
\* get() and every other worker is parked too or has left (nobody is left
\* to notify put_event).
C27_WorkersExitAfterDrop ==
    ~(epc[PoolEndpoint] = "dropped" /\ PoolQuiescent
        /\ \E w \in Workers : epc[w] = "g_wait")

\* C29: once an endpoint has called end(), a get() that finds the buffer
\* empty returns closed in its first step, on every endpoint and whatever
\* the other endpoints did, and no get() that starts then parks; a get()
\* that finds an item returns the head item, also an item put after end().
C29_GetAfterEnd ==
    [][/\ \A e \in Endpoints :
            (end_count > 0 /\ epc[e] = "ready") =>
               /\ epc'[e] \notin InGet
               /\ (got'[e] # got[e] /\ got'[e] # NoResult) =>
                     IF deque = <<>>
                     THEN got'[e] = None
                     ELSE /\ got'[e] = SomeItem
                          /\ recvlog' = Append(recvlog, Head(deque))
       /\ (end_count > 0 /\ recvlog' # recvlog) =>
             /\ deque # <<>>
             /\ recvlog' = Append(recvlog, Head(deque))
             /\ deque' = Tail(deque)]_vars

C29_Witness ==
    /\ end_count > 0
    /\ endlen = 0
    /\ recvlog = <<1>>
    /\ deque = <<>>
    /\ \E e1, e2 \in Endpoints :
          /\ epc[e1] = "ready" /\ got[e1] = SomeItem
          /\ epc[e2] = "ready" /\ got[e2] = None

\* ------------------------------------------- claims on Latent::add_event
\* The indices of the list of c whose event has been passed to add_event and
\* has not been withdrawn by remove_event.
Registered(c) ==
    LET n == Len(call[c].list) IN
    IF call[c].op = "none" THEN {}
    ELSE IF tpc[c] = "w_reg" THEN 0..(call[c].i - 1)
    ELSE IF tpc[c] = "w_unreg" THEN call[c].i..(n - 1)
    ELSE IF call[c].op = "wait_one" /\ tpc[c] = "idle" THEN {}
    ELSE 0..(n - 1)

\* The event of index idx of the call of c is in the events of its future.
Stored(c, idx) ==
    Event(call[c].id, call[c].lis, idx) \in events[call[c].list[idx + 1]]

\* C28: an event passed to add_event and not withdrawn is either stored and
\* unfired, or fired exactly once; no event fires twice; add_event fires it
\* at once on a future whose value is stored and stores it otherwise; and
\* when set() has returned the registration set is empty, so the event of a
\* set future has fired once and is not stored.
C28_EventFiredExactlyOnce ==
    /\ [](\A l \in Futures : spc[l] = "done" => events[l] = {})
    /\ [](\A c \in Clients :
            /\ \A idx \in 0..(Len(call[c].list) - 1) :
                  Count(firedlog[call[c].lis], idx) <= 1
            /\ \A idx \in Registered(c) :
                  Count(firedlog[call[c].lis], idx) = (IF Stored(c, idx) THEN 0 ELSE 1))
    /\ [][\A c \in Clients :
            (tpc[c] = "w_reg" /\ call'[c].i = call[c].i + 1) =>
               LET idx == call[c].i
                   l == call[c].list[idx + 1]
                   k == call[c].lis
               IN  IF value[l] # None
                   THEN /\ firedlog'[k] = Append(firedlog[k], idx)
                        /\ events'[l] = events[l]
                   ELSE /\ firedlog'[k] = firedlog[k]
                        /\ Event(call[c].id, k, idx) \in events'[l]]_vars

C28_Witness ==
    \E c \in Clients :
        /\ call[c].op = "wait_all"
        /\ Len(call[c].list) = 3
        /\ Registered(c) = {0, 1, 2}
        /\ call[c].ready0 = {2}
        /\ \A l \in Futures : spc[l] = "done"
        /\ Len(firedlog[call[c].lis]) = 3

\* ----------------------------------------- the mutexes, one step each
\* The threads followed at this level: thread l calls set() on Latent l, and
\* client k is the consumer of listener k and registers under the id k.
Threads == DOMAIN lprog
Locks == DOMAIN owner

\* LatentData.value and LatentData.events of a Latent (latent.rs 22, 24),
\* SharedData.triggered_events of a listener (event.rs 10).
Mutex(kind, n) == <<kind, n>>

\* What a thread has left to do in its call.  lock: Mutex::lock() on the
\* mutex (kind, n), followed under the guard by the effect eff; unlock: the
\* guard goes out of scope; drop: an Event goes out of scope (event.rs
\* 119-125); park: the thread is inside Condvar::wait.
Lock(kind, n, eff, arg) ==
    [op |-> "lock", kind |-> kind, n |-> n, eff |-> eff, arg |-> arg]
Unlock(kind, n) ==
    [op |-> "unlock", kind |-> kind, n |-> n, eff |-> "none", arg |-> 0]
DropEvent(k, eff, l) ==
    [op |-> "drop", kind |-> "none", n |-> k, eff |-> eff, arg |-> l]
Park == [op |-> "park", kind |-> "none", n |-> 0, eff |-> "none", arg |-> 0]

\* Latent::set (latent.rs 61-78): the value guard, the store, the events
\* guard, the drain; the guards are dropped in reverse order at the end.
SetProgram(l) ==
    <<Lock("value", l, "store", 0), Lock("events", l, "drain", 0),
      Unlock("events", l), Unlock("value", l)>>

\* Event::trigger (event.rs 114-116, 28-32): the listener's mutex is taken
\* for the push, and the event is dropped when trigger returns.
TriggerProgram(k, tag, eff, l) ==
    <<Lock("listener", k, "push", tag), Unlock("listener", k), DropEvent(k, eff, l)>>

\* Latent::add_event (latent.rs 96-105): the value guard is kept to the end.
AddEventProgram(l, k) ==
    <<Lock("value", l, "test_add", k), Unlock("value", l)>>

\* latent.rs 100-101
InsertProgram(l, k) ==
    <<Lock("events", l, "insert", k), Unlock("events", l)>>

\* Latent::remove_event (latent.rs 109-112)
RemoveEventLocksValue(l, k) ==
    <<Lock("events", l, "remove", k), Lock("value", l, "none", 0),
      Unlock("value", l), Unlock("events", l)>>
RemoveEventProgram(l, k) ==
    <<Lock("events", l, "remove", k), Unlock("events", l)>>

\* Latent::wait (latent.rs 82-90)
WaitProgram(l) ==
    <<Lock("value", l, "await", 0), Unlock("value", l)>>

\* SharedData::wait_one (event.rs 36-49)
WaitOneProgram(k) ==
    <<Lock("listener", k, "test_queue", 0), Unlock("listener", k)>>

\* One turn of the loop of set (latent.rs 75-77) by thread t, with rest
\* left to do after the loop: HashMap::drain yields the events in any order.
DrainNext(t, l, rest) ==
    IF events[l] = {}
    THEN /\ lprog' = [lprog EXCEPT ![t] = rest]
         /\ UNCHANGED events
    ELSE \E e \in events[l] :
            /\ events' = [events EXCEPT ![l] = @ \ {e}]
            /\ lprog' = [lprog EXCEPT ![t] =
                            TriggerProgram(e.lis, e.tag, "drain", l) \o rest]

\* Thread t has taken the mutex of ins and runs what follows under the
\* guard; a Condvar::wait releases the mutex in the same step.
LockEffect(t, ins, rest) ==
    LET m == Mutex(ins.kind, ins.n)
        taken == [owner EXCEPT ![m] = t]
    IN
    CASE ins.eff = "none" ->
            /\ owner' = taken
            /\ lprog' = [lprog EXCEPT ![t] = rest]
            /\ UNCHANGED <<value, events, equeue, ecount>>
      [] ins.eff = "store" ->
            /\ owner' = taken
            /\ value' = [value EXCEPT ![ins.n] = ins.n]
            /\ lprog' = [lprog EXCEPT ![t] = rest]
            /\ UNCHANGED <<events, equeue, ecount>>
      [] ins.eff = "drain" ->
            /\ owner' = taken
            /\ DrainNext(t, ins.n, rest)
            /\ UNCHANGED <<value, equeue, ecount>>
      [] ins.eff = "test_add" ->
            /\ owner' = taken
            /\ lprog' = [lprog EXCEPT ![t] =
                            IF IsNone(value[ins.n])
                            THEN InsertProgram(ins.n, ins.arg) \o rest
                            ELSE TriggerProgram(ins.arg, ins.n, "none", 0) \o rest]
            /\ UNCHANGED <<value, events, equeue, ecount>>
      [] ins.eff = "insert" ->
            /\ owner' = taken
            /\ events' = [events EXCEPT ![ins.n] =
                             {e \in @ : e.id # ins.arg}
                                \cup {Event(ins.arg, ins.arg, ins.n)}]
            /\ ecount' = EDropAll(ecount, {e \in events[ins.n] : e.id = ins.arg})
            /\ lprog' = [lprog EXCEPT ![t] = rest]
            /\ UNCHANGED <<value, equeue>>
      [] ins.eff = "remove" ->
            /\ owner' = taken
            /\ events' = [events EXCEPT ![ins.n] = RemoveEvent(@, ins.arg)]
            /\ ecount' = EDropAll(ecount, events[ins.n] \ RemoveEvent(events[ins.n], ins.arg))
            /\ lprog' = [lprog EXCEPT ![t] = rest]
            /\ UNCHANGED <<value, equeue>>
      [] ins.eff = "push" ->
            /\ owner' = taken
            /\ equeue' = [equeue EXCEPT ![ins.n] = Append(@, ins.arg)]
            /\ lprog' = [lprog EXCEPT ![t] = rest]
            /\ UNCHANGED <<value, events, ecount>>
      [] ins.eff = "await" ->
            /\ IF IsNone(value[ins.n])
               THEN /\ lprog' = [lprog EXCEPT ![t] = <<Park>> \o @]
                    /\ UNCHANGED owner
               ELSE /\ owner' = taken
                    /\ lprog' = [lprog EXCEPT ![t] = rest]
            /\ UNCHANGED <<value, events, equeue, ecount>>
      [] ins.eff = "test_queue" ->
            IF Len(equeue[ins.n]) > 0
            THEN /\ owner' = taken
                 /\ equeue' = [equeue EXCEPT ![ins.n] = EPopFront(@).rest]
                 /\ lprog' = [lprog EXCEPT ![t] = rest]
                 /\ UNCHANGED <<value, events, ecount>>
            ELSE IF NothingPending(ecount[ins.n])
            THEN /\ owner' = taken
                 /\ lprog' = [lprog EXCEPT ![t] = rest]
                 /\ UNCHANGED <<value, events, equeue, ecount>>
            ELSE /\ lprog' = [lprog EXCEPT ![t] =
                                <<Park, Lock("listener", ins.n, "pop", 0)>> \o rest]
                 /\ UNCHANGED <<owner, value, events, equeue, ecount>>
      [] ins.eff = "pop" ->
            /\ owner' = taken
            /\ equeue' = [equeue EXCEPT ![ins.n] =
                             IF Len(@) > 0 THEN EPopFront(@).rest ELSE @]
            /\ lprog' = [lprog EXCEPT ![t] = rest]
            /\ UNCHANGED <<value, events, ecount>>

\* Mutex::lock(): the thread goes on when the mutex is free.
LkLock(t) ==
    /\ lprog[t] # <<>>
    /\ Head(lprog[t]).op = "lock"
    /\ owner[Mutex(Head(lprog[t]).kind, Head(lprog[t]).n)] = NoOne
    /\ LockEffect(t, Head(lprog[t]), Tail(lprog[t]))
    /\ UNCHANGED <<poisoned, lcalls>>

\* A guard goes out of scope.
LkUnlock(t) ==
    /\ lprog[t] # <<>>
    /\ Head(lprog[t]).op = "unlock"
    /\ owner' = [owner EXCEPT ![Mutex(Head(lprog[t]).kind, Head(lprog[t]).n)] = NoOne]
    /\ lprog' = [lprog EXCEPT ![t] = Tail(@)]
    /\ UNCHANGED <<value, poisoned, events, equeue, ecount, lcalls>>

\* Event::drop (event.rs 122-124), and the next turn of the loop of set when
\* the event was triggered by it.
LkDropEvent(t) ==
    /\ lprog[t] # <<>>
    /\ Head(lprog[t]).op = "drop"
    /\ ecount' = [ecount EXCEPT ![Head(lprog[t]).n] = @ - 1]
    /\ IF Head(lprog[t]).eff = "drain"
       THEN DrainNext(t, Head(lprog[t]).arg, Tail(lprog[t]))
       ELSE /\ lprog' = [lprog EXCEPT ![t] = Tail(@)]
            /\ UNCHANGED events
    /\ UNCHANGED <<value, poisoned, equeue, owner, lcalls>>

\* Condvar::wait returns, notified or not; the mutex is taken again next.
LkWake(t) ==
    /\ lprog[t] # <<>>
    /\ Head(lprog[t]).op = "park"
    /\ lprog' = [lprog EXCEPT ![t] = Tail(@)]
    /\ UNCHANGED <<value, poisoned, events, equeue, ecount, owner, lcalls>>

\* Thread t, in no call, begins the call whose lock operations are prog.
LkCall(t, prog) ==
    /\ lprog[t] = <<>>
    /\ lprog' = [lprog EXCEPT ![t] = prog]
    /\ lcalls' = [lcalls EXCEPT ![t] = @ + 1]
    /\ UNCHANGED <<value, poisoned, events, equeue, owner>>

\* Each Latent is set once, by its own thread.
LkCallSet(l) ==
    /\ lcalls[l] < 1
    /\ LkCall(l, SetProgram(l))
    /\ UNCHANGED ecount

\* create_event (event.rs 146-148, 107-110) and add_event, as the select
\* calls do (latent.rs 137, 211-212).
LkCallAddEvent(k, l) ==
    /\ lcalls[k] < MaxLockCalls
    /\ LkCall(k, AddEventProgram(l, k))
    /\ ecount' = [ecount EXCEPT ![k] = @ + 1]

LkCallRemoveEvent(k, l) ==
    /\ lcalls[k] < MaxLockCalls
    /\ LkCall(k, RemoveEventProgram(l, k))
    /\ UNCHANGED ecount

LkCallWait(k, l) ==
    /\ lcalls[k] < MaxLockCalls
    /\ LkCall(k, WaitProgram(l))
    /\ UNCHANGED ecount

LkCallWaitOne(k) ==
    /\ lcalls[k] < MaxLockCalls
    /\ LkCall(k, WaitOneProgram(k))
    /\ UNCHANGED ecount

\* LockFutures Latents, each with its setter thread, and LockClients
\* clients, each with its listener; no mutex is held.
LockClientIds == (LockFutures + 1)..(LockFutures + LockClients)

LockInit ==
    /\ ChannelPoolInert
    /\ HolderInert
    /\ SignalInert
    /\ CounterInert
    /\ NeverEnded
    /\ value = [l \in 1..LockFutures |-> None]
    /\ poisoned = [l \in 1..LockFutures |-> FALSE]
    /\ events = [l \in 1..LockFutures |-> {}]
    /\ equeue = [k \in LockClientIds |-> <<>>]
    /\ ecount = [k \in LockClientIds |-> 0]
    /\ owner = [m \in ({"value", "events"} \X (1..LockFutures))
                        \cup ({"listener"} \X LockClientIds) |-> NoOne]
    /\ lprog = [t \in 1..(LockFutures + LockClients) |-> <<>>]
    /\ lcalls = [t \in 1..(LockFutures + LockClients) |-> 0]
    /\ spc = <<>>
    /\ sheld = <<>>
    /\ donebefore = <<>>
    /\ firedlog = <<>>
    /\ takenlog = <<>>
    /\ tpc = <<>>
    /\ tlat = <<>>
    /\ tres = <<>>
    /\ waited = {}
    /\ waiter_count = 0
    /\ call = <<>>
    /\ glatents = <<>>
    /\ gcounter = 0
    /\ added = {}
    /\ retlog = <<>>

LockOnly ==
    UNCHANGED <<chanVars, poolVars, clientVars, spc, sheld, donebefore,
                firedlog, takenlog, selectVars, signalVars, counterVars,
                holderVars, endlen>>

LockNext ==
    \/ \E t \in Threads : LkLock(t) /\ LockOnly
    \/ \E t \in Threads : LkUnlock(t) /\ LockOnly
    \/ \E t \in Threads : LkDropEvent(t) /\ LockOnly
    \/ \E t \in Threads : LkWake(t) /\ LockOnly
    \/ \E l \in Latents : LkCallSet(l) /\ LockOnly
    \/ \E k \in Listeners, l \in Latents : LkCallAddEvent(k, l) /\ LockOnly
    \/ \E k \in Listeners, l \in Latents : LkCallRemoveEvent(k, l) /\ LockOnly
    \/ \E k \in Listeners, l \in Latents : LkCallWait(k, l) /\ LockOnly
    \/ \E k \in Listeners : LkCallWaitOne(k) /\ LockOnly

LockSpec == LockInit /\ [][LockNext]_vars

\* ------------------------------------------------- claims on the mutexes
\* The mutexes thread t holds, and the thread that holds the mutex t is
\* waiting to acquire.
HeldBy(t) == {m \in Locks : owner[m] = t}

WaitsFor(t) ==
    IF lprog[t] # <<>> /\ Head(lprog[t]).op = "lock"
    THEN {owner[Mutex(Head(lprog[t]).kind, Head(lprog[t]).n)]} \ {NoOne}
    ELSE {}

\* C24: in every reachable state each thread holds at most one mutex.
C24_AtMostOneLock ==
    \A t \in Threads : Cardinality(HeldBy(t)) <= 1

\* C30: in no reachable state is there a set of threads each of which is
\* waiting for a mutex held by a thread of the set.
C30_NoLockCycle ==
    \A S \in SUBSET Threads :
        S # {} => \E t \in S : WaitsFor(t) \cap S = {}

C30_Witness ==
    \E t1, t2 \in Threads :
        /\ t2 \in WaitsFor(t1)
        /\ Cardinality(HeldBy(t2)) >= 3

\* ------------------------------------ an EventListener used on its own
\* The listener of the consumer thread, which hands each Event it creates to
\* a thread of its own; that thread fires it (event.rs 114-116) or lets it go
\* out of scope (event.rs 119-125).  The value of the event of holder h is h.
OwnListener == 0
Holders == DOMAIN hpc

\* EventListener::create_event (event.rs 146-148, 107-110): &mut self, so
\* the consumer is in no wait; the Event moves to thread h.
ListenerCreateEvent(c, h) ==
    /\ tpc[c] = "idle"
    /\ hpc[h] = "none"
    /\ ecount' = [ecount EXCEPT ![OwnListener] = @ + 1]
    /\ hpc' = [hpc EXCEPT ![h] = "holding"]
    /\ UNCHANGED <<latentVars, clientVars, selectVars>>
    /\ UNCHANGED <<events, spc, sheld, donebefore, equeue, firedlog, takenlog>>

\* Event::trigger (event.rs 114-116, 28-32): the push and notify_all under
\* the listener's mutex; the Event is dropped after the mutex is released.
HolderTrigger(h) ==
    /\ hpc[h] = "holding"
    /\ ETrigger(OwnListener, h)
    /\ tpc' = ENotifyAll(tpc, OwnListener)
    /\ hpc' = [hpc EXCEPT ![h] = "fired"]
    /\ UNCHANGED <<latentVars, selectVars, tlat, tres, waited>>
    /\ UNCHANGED <<events, spc, sheld, donebefore, ecount, takenlog>>

\* Event::drop (event.rs 122-124), of a fired Event or of one that goes out
\* of scope unfired: the decrement, and no notification.
HolderDrop(h) ==
    /\ hpc[h] \in {"holding", "fired"}
    /\ ecount' = [ecount EXCEPT ![OwnListener] = @ - 1]
    /\ hpc' = [hpc EXCEPT ![h] = "gone"]
    /\ UNCHANGED <<latentVars, selectVars, clientVars>>
    /\ UNCHANGED <<events, spc, sheld, donebefore, equeue, firedlog, takenlog>>

\* EventListener::wait_one / wait_some / wait_all (event.rs 152-166).
ListenerCall(c, op) ==
    /\ tpc[c] = "idle"
    /\ call' = [call EXCEPT ![c] = Call(op, <<>>, 0, OwnListener)]
    /\ tpc' = [tpc EXCEPT ![c] = FirstPc(op)]
    /\ UNCHANGED <<latentVars, eventVars, tlat, tres, waited, hpc>>
    /\ UNCHANGED <<waiter_count, glatents, gcounter, added, retlog>>

\* EventListener::new (event.rs 138-142); no Latent, no group.
ListenerInit ==
    /\ ChannelPoolInert
    /\ SignalInert
    /\ CounterInert
    /\ LockInert
    /\ NeverEnded
    /\ value = <<>>
    /\ poisoned = <<>>
    /\ events = <<>>
    /\ spc = <<>>
    /\ sheld = <<>>
    /\ donebefore = <<>>
    /\ equeue = [k \in {OwnListener} |-> <<>>]
    /\ ecount = [k \in {OwnListener} |-> 0]
    /\ firedlog = [k \in {OwnListener} |-> <<>>]
    /\ takenlog = [k \in {OwnListener} |-> <<>>]
    /\ tpc = [c \in {Caller} |-> "idle"]
    /\ tlat = [c \in {Caller} |-> 0]
    /\ tres = [c \in {Caller} |-> Returned("new", 0)]
    /\ call = [c \in {Caller} |-> NoCall]
    /\ waited = {}
    /\ waiter_count = 0
    /\ glatents = <<>>
    /\ gcounter = 0
    /\ added = {}
    /\ retlog = <<>>
    /\ hpc = [h \in 1..MaxEventHolders |-> "none"]

ListenerOnly ==
    UNCHANGED <<chanVars, poolVars, signalVars, counterVars, lockVars, endlen>>

ListenerNext ==
    \/ \E c \in Clients, h \in Holders : ListenerCreateEvent(c, h) /\ ListenerOnly
    \/ \E h \in Holders : HolderTrigger(h) /\ ListenerOnly
    \/ \E h \in Holders : HolderDrop(h) /\ ListenerOnly
    \/ \E c \in Clients : ListenerCall(c, "l_wait_one") /\ ListenerOnly
    \/ \E c \in Clients : ListenerCall(c, "l_wait_some") /\ ListenerOnly
    \/ \E c \in Clients : ListenerCall(c, "l_wait_all") /\ ListenerOnly
    \/ \E c \in Clients : EWaitOne(c) /\ ListenerOnly /\ UNCHANGED hpc
    \/ \E c \in Clients : EWaitOneWake(c) /\ ListenerOnly /\ UNCHANGED hpc
    \/ \E c \in Clients : ESpuriousWake(c) /\ ListenerOnly /\ UNCHANGED hpc
    \/ \E c \in Clients : EWaitSome(c) /\ ListenerOnly /\ UNCHANGED hpc

ListenerSpec == ListenerInit /\ [][ListenerNext]_vars

\* C31: a consumer is never left parked in the listener's wait when every
\* Event created on the listener has fired or gone out of scope and has been
\* dropped: no thread has a step left, so no notification will come and
\* only a wakeup that nobody sends could make the call return.
C31_BlockedConsumerReleased ==
    \A c \in Clients :
        ~(/\ tpc[c] = "e_wait"
          /\ \A h \in Holders : hpc[h] \in {"none", "gone"})

\* ------------------------- a LatentGroup and LatentWaiter calls together
\* One thread owns a LatentGroup and also calls LatentWaiter::wait_one and
\* wait_all on the list of all the futures, which it may have added to the
\* group; WAITER_COUNT starts at 0 (latent.rs 127) and each waiter call makes
\* its own listener, named by the id the call draws.
SharedInit ==
    /\ \E n \in 1..SharedFutures : FuturesInit(n)
    /\ equeue = [k \in {GroupListener} \cup (0..(MaxWaiterCalls - 1)) |-> <<>>]
    /\ ecount = [k \in {GroupListener} \cup (0..(MaxWaiterCalls - 1)) |-> 0]
    /\ firedlog = [k \in {GroupListener} \cup (0..(MaxWaiterCalls - 1)) |-> <<>>]
    /\ takenlog = [k \in {GroupListener} \cup (0..(MaxWaiterCalls - 1)) |-> <<>>]
    /\ glatents = <<>>
    /\ gcounter = 0

CallsLeft == waiter_count < MaxWaiterCalls

SharedNext ==
    \/ \E l \in Futures : SetBegin(l) /\ SelectOnly
    \/ \E l \in Futures : SetTrigger(l) /\ SelectOnly
    \/ \E l \in Futures : SetDropEvent(l) /\ SelectOnly
    \/ \E c \in Clients, l \in Futures : GroupAdd(c, l) /\ SelectOnly
    \/ \E c \in Clients : GroupWaitOne(c) /\ SelectOnly
    \/ \E c \in Clients : GroupWaitSome(c) /\ SelectOnly
    \/ \E c \in Clients : CallsLeft /\ WaiterCall(c, "wait_one", AllFutures) /\ SelectOnly
    \/ \E c \in Clients : CallsLeft /\ WaiterCall(c, "wait_all", AllFutures) /\ SelectOnly
    \/ \E c \in Clients : WaiterAddEvent(c) /\ SelectOnly
    \/ \E c \in Clients : WaiterRemoveEvent(c) /\ SelectOnly
    \/ \E c \in Clients : EWaitOne(c) /\ SelectOnly
    \/ \E c \in Clients : EWaitOneWake(c) /\ SelectOnly
    \/ \E c \in Clients : ESpuriousWake(c) /\ SelectOnly
    \/ \E c \in Clients : EWaitSome(c) /\ SelectOnly

SharedSpec == SharedInit /\ [][SharedNext]_vars

\* C32: no waiter call replaces or removes the registration of a group: a
\* future that was added to the group and is not set yet carries the group's
\* event, under the group's id 0, so that it fires into the group when set.
C32_GroupRegistrationKept ==
    \A l \in added :
        value[l] = None =>
            \E e \in events[l] : e.lis = GroupListener /\ e.id = 0

\* ---------------------------------------------------------------- WorkGroup
\* WorkGroup::new (workgroup.rs 46-48) takes the pool; put hands a task to
\* it (workgroup.rs 52-57) and the caller may wait on the Latent it gets.

\* WorkGroup::is_running (workgroup.rs 61-63)
is_running == is_empty

\* The caller asks is_running(): one atomic load of running_count.
WorkGroupIsRunning(c) ==
    /\ tpc[c] = "idle"
    /\ epc[PoolEndpoint] = "ready"
    /\ tres' = [tres EXCEPT ![c] = Returned("is_running", BoolVal(is_running))]
    /\ UNCHANGED <<tpc, tlat, waited>>
    /\ UNCHANGED <<chanVars, latentVars, poolVars>>

\* The pool is reachable only through the WorkGroup: put, is_running, and
\* the drop of the WorkGroup, which drops the pool.
WorkGroupNext ==
    \/ \E w \in Workers : WorkerGetStart(w) /\ PoolOnly
    \/ \E w \in Workers : WorkerGetCheckOpen(w) /\ PoolOnly
    \/ \E w \in Workers : WorkerGetIncrement(w) /\ PoolOnly
    \/ \E w \in Workers : WorkerGetPark(w) /\ PoolOnly
    \/ \E w \in Workers : WorkerSpuriousWake(w) /\ PoolOnly
    \/ \E w \in Workers : WorkerGetWake(w) /\ PoolOnly
    \/ \E w \in Workers : WorkerIncrement(w) /\ PoolOnly
    \/ \E w \in Workers : WorkerRunTask(w) /\ PoolOnly
    \/ \E w \in Workers : WorkerSetLatent(w) /\ PoolOnly
    \/ \E w \in Workers : WorkerDecrement(w) /\ PoolOnly
    \/ \E w \in Workers : WorkerCheckEmpty(w) /\ PoolOnly
    \/ \E w \in Workers : WorkerSignal(w) /\ PoolOnly
    \/ \E w \in Workers : WorkerExit(w) /\ PoolOnly
    \/ \E e \in Endpoints : PoolDropRead(e) /\ PoolOnly
    \/ \E e \in Endpoints : PoolDropNotify(e) /\ PoolOnly
    \/ \E c \in Clients : Len(putlog) < MaxTasks /\ PoolPut(c, Len(putlog) + 1) /\ PoolOnly
    \/ \E c \in Clients : WorkGroupIsRunning(c) /\ PoolOnly
    \/ \E c \in Clients, t \in Latents : PoolLatentWaitStart(c, t) /\ PoolOnly
    \/ \E c \in Clients : PoolLatentWaitWake(c) /\ PoolOnly
    \/ \E c \in Clients : PoolLatentSpuriousWake(c) /\ PoolOnly
    \/ \E c \in Clients : PoolDrop(c) /\ PoolOnly

WorkGroupSpec == PoolInit /\ [][WorkGroupNext]_vars

\* C33: a call of is_running() returns true when running_count is nonzero
\* at the call and false when it is 0.
C33_IsRunningIffTaskRunning ==
    [][\A c \in Clients :
        (tres'[c].op = "is_running" /\ tres'[c] # tres[c])
            => tres'[c].val = BoolVal(running_count > 0)]_vars

====
